---- MODULE Spec2Model ----
(***************************************************************************)
(* State-machine model of the wallet core of franzos/iota-wallet:          *)
(*   - the write protocol of NetworkClient (send_iota, stake_iota,         *)
(*     unstake_iota): build, dry-run, sign, execute;                       *)
(*   - the incremental cached history sync (sync_transactions,             *)
(*     fetch_paginated, sync_min_epoch) against a remote feed and the      *)
(*     local transaction cache;                                            *)
(*   - the live read path (transactions): two parallel one-sided queries,  *)
(*     merged, sorted and filtered.                                        *)
(*   - the amount codec (nanos_to_iota, format_balance,                    *)
(*     parse_iota_amount) on texts and 64-bit amounts;                     *)
(*   - the filter token parser and the show_transfers command line;        *)
(*   - the construction of the network client, its faucet operation and    *)
(*     the wallet service that forwards to it;                             *)
(*   - get_stakes: the mapping of the staked objects of an answer.         *)
(* The specifications share the variables: SpecSend runs write calls,      *)
(* Spec runs concurrent history syncs, SpecSeq runs them one by one,       *)
(* SpecClear adds the clearing of the history, SpecKeys runs concurrent    *)
(* syncs for two addresses, SpecFetch runs fetch_paginated on its own,     *)
(* SpecHist runs transactions calls, SpecMin evaluates sync_min_epoch,     *)
(* SpecAmount runs the amount codec, SpecFilter the filter parser,         *)
(* SpecClient constructs a network client and a wallet service and uses    *)
(* them, SpecStakes runs get_stakes.                                       *)
(***************************************************************************)
EXTENDS Integers, Sequences, FiniteSets, TLC

(***************************************************************************)
(* Bounds of the model.                                                    *)
(***************************************************************************)
\* number of write calls (send / stake / unstake) issued one after another
MaxCalls == 2
\* largest amount (nanos) passed to a write call
MaxAmount == 2
\* number of transactions that land on the chain while the model runs
MaxTx == 2
\* the chain's epochs run from 0 to MaxEpoch
MaxEpoch == 2
\* lookback_epochs of a sync is drawn from 0..MaxLookback
MaxLookback == 1
\* number of items on a page of the live read path (the node's default
\* page size, scaled down)
MaxPage == 2
\* the arguments of sync_min_epoch evaluated on its own are drawn from
\* 0..MaxArg (and from the arguments of its unit tests)
MaxArg == 4
\* the texts handed to parse_iota_amount are all texts of at most MaxText
\* characters over AmountChars (and the longer texts of AmountTests)
MaxText == 4
\* the filter tokens are all texts of at most MaxToken characters over
\* FilterChars
MaxToken == 3
\* number of calls a service forwards to its network client
MaxForward == 2
\* number of nodes in the answer to the stakedIotas query
MaxNodes == 2
\* page size of a Backward page (the source asks for limit 50; the model
\* scales the page down so that feeds of MaxTx items span several pages)
PageLimit == 1
\* number of requests one pagination loop issues
MaxRequests == 3
\* number of transactions of a feed handed to fetch_paginated on its own
MaxFeed == 3
\* page size of the node when fetch_paginated runs on its own
FetchLimit == 2

VARIABLES
    \* ---- write protocol (one task, calls issued one after another) ----
    wop,        \* operation of the current call, "none" before the first
    wamount,    \* its amount argument (0 for unstake_iota)
    wpc,        \* await point the task is suspended at, or "idle"/"returned"
    wlog,       \* the steps invoked so far in the current call, in order
    wdry,       \* dry-run response of the current call
    wsign,      \* answer of the signer in the current call
    wexec,      \* answer of execute_tx in the current call
    wfail,      \* the step whose failure ended the current call
    wret,       \* value returned by the current call
    ncalls,     \* number of calls started
    \* ---- remote chain ----
    epoch,      \* the chain's current epoch
    feed,       \* the transactions landed so far, oldest first; a
                \* transaction's digest is its position in the feed
    \* ---- local transaction cache (durable, shared by all syncs) ----
    cache,      \* per address: the set of stored summary rows
    syncPoint,  \* per address: the stored sync point (0: never synced)
    writer,     \* per address: the sync whose commit wrote the sync point last
    \* ---- sync_transactions tasks ----
    sync,       \* per task: its position and its local variables
    \* ---- transactions (live read path, calls issued one after another) ----
    hpc,        \* "idle", "querying" (the two queries in flight), "returned"
    hfilter,    \* the filter argument of the current call
    hsent,      \* the sent-side query: "pending" or its summaries
    hrecv,      \* the received-side query: "pending" or its summaries
    hfirst,     \* the side whose query completed first in the current call
    hret,       \* value returned by the current call
    \* ---- sync_min_epoch (evaluated on its own) ----
    mc,         \* argument current_epoch
    ml,         \* argument lookback_epochs
    ms,         \* argument last_synced_epoch
    mres,       \* the value returned, -1 before the call
    \* ---- amount codec (nanos_to_iota, format_balance, parse_iota_amount) ----
    anum,       \* the nanos handed to the formatters, if any
    astr,       \* the text handed to the parser: an input, or nanos_to_iota's output
    abal,       \* the output of format_balance
    ares,       \* the result of parse_iota_amount on astr
    \* ---- transaction filter tokens (from_str, Command::parse) ----
    ftok,       \* the filter token of a show_transfers line, if any
    fres,       \* the result of TransactionFilter::from_str on the token
    fcmd,       \* the result of Command::parse on the line
    \* ---- network client construction, faucet, wallet service ----
    ncfg,       \* the NetworkConfig handed to NetworkClient::new
    nclient,    \* the result of NetworkClient::new
    service,    \* the WalletService's signer, once the service is built
    forwarded,  \* the calls the service has issued to the network client
    txs,        \* the transactions built for the service's writes
    nop,        \* the faucet call in progress
    nret,       \* the value returned by the last faucet call
    \* ---- get_stakes (evaluated on its own) ----
    gnodes,     \* the nodes array of the answer to the stakedIotas query
    gret,       \* the value returned by get_stakes
    \* ---- behaviour of the remote node's paginated feed ----
    plimit,     \* the number of items the node puts on one page
    pinfo       \* how the node fills page_info: "relay" or "no_cursor"

wvars == <<wop, wamount, wpc, wlog, wdry, wsign, wexec, wfail, wret, ncalls>>

chainvars == <<epoch, feed>>

cachevars == <<cache, syncPoint, writer>>

svars == <<epoch, feed, cache, syncPoint, writer, sync>>

hvars == <<hpc, hfilter, hsent, hrecv, hfirst, hret>>

mvars == <<mc, ml, ms, mres>>

avars == <<anum, astr, abal, ares>>

cvars == <<ftok, fres, fcmd>>

nvars == <<ncfg, nclient, service, forwarded, txs, nop, nret>>

xvars == <<avars, cvars, nvars>>

gvars == <<gnodes, gret>>

rvars == <<plimit, pinfo>>

yvars == <<gvars, rvars>>

vars == <<wop, wamount, wpc, wlog, wdry, wsign, wexec, wfail, wret, ncalls,
          epoch, feed, cache, syncPoint, writer, sync,
          hpc, hfilter, hsent, hrecv, hfirst, hret,
          mc, ml, ms, mres,
          anum, astr, abal, ares,
          ftok, fres, fcmd,
          ncfg, nclient, service, forwarded, txs, nop, nret,
          gnodes, gret, plimit, pinfo>>

(***************************************************************************)
(* Write protocol: values.                                                 *)
(***************************************************************************)
Ops == {"send_iota", "stake_iota", "unstake_iota"}

\* the protocol steps, in the order the source issues them
ProtocolOrder == <<"build", "dry_run", "sign", "execute">>

\* error payloads a dry-run response may carry (dry_run.error = Some(err))
DryErrors == {"InsufficientGas", "InsufficientCoinBalance"}

\* what dry_run_tx may answer: a transport failure, a response that carries
\* an error payload, or a response without one
DryRunResponses == {"TransportError", "NoError"} \cup DryErrors

\* effects.status() of an executed transaction, debug-rendered
Statuses == {"Success", "Failure"}

\* what execute_tx may answer: a transport failure or the effects' status
ExecuteResponses == {"TransportError"} \cup Statuses

NoRet == [kind |-> "none"]
Err(msg) == [kind |-> "err", msg |-> msg]
OkTransfer(digest, status) == [kind |-> "ok", digest |-> digest, status |-> status]

\* the transaction the builder produces for the current call; its digest
\* is determined by its content
BuiltTx == <<wop, wamount, ncalls>>

IsPrefix(s, t) == /\ Len(s) <= Len(t)
                  /\ \A k \in 1..Len(s) : s[k] = t[k]

(***************************************************************************)
(* send_iota                                                               *)
(***************************************************************************)
\* a caller starts a write call; the builder's finish() is awaited
StartCall ==
    /\ wpc \in {"idle", "returned"}
    /\ ncalls < MaxCalls
    /\ \E o \in Ops, a \in 1..MaxAmount :
         /\ wop' = o
         /\ wamount' = IF o = "unstake_iota" THEN 0 ELSE a
    /\ wpc' = "build"
    /\ wlog' = <<"build">>
    /\ wdry' = "none"
    /\ wsign' = "none"
    /\ wexec' = "none"
    /\ wfail' = "none"
    /\ wret' = NoRet
    /\ ncalls' = ncalls + 1
    /\ UNCHANGED <<svars, hvars, mvars, xvars, yvars>>

\* context string of a failed build, per operation
BuildContext(o) ==
    CASE o = "send_iota"    -> "Failed to build transaction"
      [] o = "stake_iota"   -> "Failed to build stake transaction"
      [] o = "unstake_iota" -> "Failed to build unstake transaction"

\* the verdict of send_iota on a dry-run response: the error the call bails
\* with, or NoRet when the call goes on to sign
send_iota_dry_run_mut_ignore(r) ==
    IF r = "TransportError" THEN Err(<<"Dry run failed">>) ELSE NoRet

send_iota_dry_run_mut_message(r) ==
    IF r = "NoError" THEN NoRet ELSE Err(<<"Dry run failed">>)

send_iota_dry_run(r) ==
    IF r = "TransportError" THEN Err(<<"Dry run failed">>)
    ELSE IF r \in DryErrors THEN Err(<<"Transaction would fail: ", r>>)
    ELSE NoRet

\* builder.finish() resolves in send_iota; on success dry_run_tx is awaited
send_iota_build_return ==
    /\ wop = "send_iota"
    /\ wpc = "build"
    /\ \/ /\ wpc' = "returned"
          /\ wfail' = "build"
          /\ wret' = Err(<<BuildContext(wop)>>)
          /\ UNCHANGED wlog
       \/ /\ wpc' = "dry_run"
          /\ wlog' = Append(wlog, "dry_run")
          /\ UNCHANGED <<wfail, wret>>
    /\ UNCHANGED <<wop, wamount, wdry, wsign, wexec, ncalls>>
    /\ UNCHANGED <<svars, hvars, mvars, xvars, yvars>>

\* dry_run_tx resolves in send_iota.  Without an error the signer is asked
\* (a synchronous call) and, if it signs, execute_tx is awaited.
send_iota_dry_run_return ==
    /\ wop = "send_iota"
    /\ wpc = "dry_run"
    /\ \E r \in DryRunResponses :
         /\ wdry' = r
         /\ IF send_iota_dry_run(r) # NoRet
            THEN /\ wpc' = "returned"
                 /\ wfail' = IF r = "TransportError" THEN "dry_run_transport"
                                                     ELSE "dry_run_error"
                 /\ wret' = send_iota_dry_run(r)
                 /\ UNCHANGED <<wlog, wsign>>
            ELSE \/ /\ wsign' = "err"
                    /\ wlog' = Append(wlog, "sign")
                    /\ wpc' = "returned"
                    /\ wfail' = "sign"
                    /\ wret' = Err(<<"Failed to sign transaction: ", "e">>)
                 \/ /\ wsign' = "ok"
                    /\ wlog' = wlog \o <<"sign", "execute">>
                    /\ wpc' = "execute"
                    /\ UNCHANGED <<wfail, wret>>
    /\ UNCHANGED <<wop, wamount, wexec, ncalls>>
    /\ UNCHANGED <<svars, hvars, mvars, xvars, yvars>>

\* what send_iota returns once execute_tx has resolved
send_iota_result_mut_reject(x, tx) ==
    IF x = "Success" THEN OkTransfer(tx, x)
    ELSE Err(<<"Failed to execute transaction">>)

send_iota_result(x, tx) ==
    IF x = "TransportError" THEN Err(<<"Failed to execute transaction">>)
    ELSE OkTransfer(tx, x)

\* execute_tx resolves in send_iota
send_iota_execute_return_mut_retry ==
    /\ wop = "send_iota"
    /\ wpc = "execute"
    /\ \E x \in ExecuteResponses :
         /\ wexec' = x
         /\ IF x = "TransportError" /\ Len(wlog) < 6
            THEN /\ wlog' = Append(wlog, "execute")
                 /\ UNCHANGED <<wpc, wret, wfail>>
            ELSE /\ wret' = send_iota_result(x, BuiltTx)
                 /\ wfail' = IF x = "TransportError" THEN "execute" ELSE "none"
                 /\ wpc' = "returned"
                 /\ UNCHANGED wlog
    /\ UNCHANGED <<wop, wamount, wdry, wsign, ncalls>>
    /\ UNCHANGED <<svars, hvars, mvars, xvars, yvars>>

send_iota_execute_return ==
    /\ wop = "send_iota"
    /\ wpc = "execute"
    /\ \E x \in ExecuteResponses :
         /\ wexec' = x
         /\ wret' = send_iota_result(x, BuiltTx)
         /\ wfail' = IF x = "TransportError" THEN "execute" ELSE "none"
    /\ wpc' = "returned"
    /\ UNCHANGED <<wop, wamount, wlog, wdry, wsign, ncalls>>
    /\ UNCHANGED <<svars, hvars, mvars, xvars, yvars>>

(***************************************************************************)
(* stake_iota / unstake_iota.  Both build their transaction and hand it to *)
(* sign_and_execute, whose body is not among the source files read; it is  *)
(* modelled from the protocol the specification gives for the writes       *)
(* (dry-run, sign, execute).                                               *)
(***************************************************************************)
\* builder.finish() resolves in stake_iota / unstake_iota; on success the
\* built transaction is handed to sign_and_execute, which awaits dry_run_tx
stake_build_return_mut_no_dry_run(o) ==
    /\ wop = o
    /\ wpc = "build"
    /\ \/ /\ wpc' = "returned"
          /\ wfail' = "build"
          /\ wret' = Err(<<BuildContext(o)>>)
          /\ UNCHANGED <<wlog, wsign>>
       \/ /\ wpc' = "execute"
          /\ wsign' = "ok"
          /\ wlog' = wlog \o <<"sign", "execute">>
          /\ UNCHANGED <<wfail, wret>>
    /\ UNCHANGED <<wop, wamount, wdry, wexec, ncalls>>
    /\ UNCHANGED <<svars, hvars, mvars, xvars, yvars>>

stake_build_return(o) ==
    /\ wop = o
    /\ wpc = "build"
    /\ \/ /\ wpc' = "returned"
          /\ wfail' = "build"
          /\ wret' = Err(<<BuildContext(o)>>)
          /\ UNCHANGED wlog
       \/ /\ wpc' = "dry_run"
          /\ wlog' = Append(wlog, "dry_run")
          /\ UNCHANGED <<wfail, wret>>
    /\ UNCHANGED <<wop, wamount, wdry, wsign, wexec, ncalls>>
    /\ UNCHANGED <<svars, hvars, mvars, xvars, yvars>>

stake_iota_build_return == stake_build_return("stake_iota")

unstake_iota_build_return == stake_build_return("unstake_iota")

\* the verdict of sign_and_execute on a dry-run response
sign_and_execute_dry_run(r) ==
    IF r = "TransportError" THEN Err(<<"Dry run failed">>)
    ELSE IF r \in DryErrors THEN Err(<<"Transaction would fail: ", r>>)
    ELSE NoRet

\* what sign_and_execute returns once execute_tx has resolved
sign_and_execute_result(x, tx) ==
    IF x = "TransportError" THEN Err(<<"Failed to execute transaction">>)
    ELSE OkTransfer(tx, x)

\* dry_run_tx resolves in sign_and_execute
sign_and_execute_dry_run_return ==
    /\ wop \in {"stake_iota", "unstake_iota"}
    /\ wpc = "dry_run"
    /\ \E r \in DryRunResponses :
         /\ wdry' = r
         /\ IF sign_and_execute_dry_run(r) # NoRet
            THEN /\ wpc' = "returned"
                 /\ wfail' = IF r = "TransportError" THEN "dry_run_transport"
                                                     ELSE "dry_run_error"
                 /\ wret' = sign_and_execute_dry_run(r)
                 /\ UNCHANGED <<wlog, wsign>>
            ELSE \/ /\ wsign' = "err"
                    /\ wlog' = Append(wlog, "sign")
                    /\ wpc' = "returned"
                    /\ wfail' = "sign"
                    /\ wret' = Err(<<"Failed to sign transaction: ", "e">>)
                 \/ /\ wsign' = "ok"
                    /\ wlog' = wlog \o <<"sign", "execute">>
                    /\ wpc' = "execute"
                    /\ UNCHANGED <<wfail, wret>>
    /\ UNCHANGED <<wop, wamount, wexec, ncalls>>
    /\ UNCHANGED <<svars, hvars, mvars, xvars, yvars>>

\* execute_tx resolves in sign_and_execute
sign_and_execute_execute_return ==
    /\ wop \in {"stake_iota", "unstake_iota"}
    /\ wpc = "execute"
    /\ \E x \in ExecuteResponses :
         /\ wexec' = x
         /\ wret' = sign_and_execute_result(x, BuiltTx)
         /\ wfail' = IF x = "TransportError" THEN "execute" ELSE "none"
    /\ wpc' = "returned"
    /\ UNCHANGED <<wop, wamount, wlog, wdry, wsign, ncalls>>
    /\ UNCHANGED <<svars, hvars, mvars, xvars, yvars>>

(***************************************************************************)
(* Remote chain and feed.                                                  *)
(***************************************************************************)
Syncs == {"s1", "s2"}

Addrs == {"a1", "a2"}

Sides == {"sent", "recv"}

\* the address the syncs of Spec run for
SyncAddr == "a1"

\* who signs and who receives a landing transaction: signed by the
\* address, received by it, or both (a transfer that returns change)
TxShapes ==
    { [signer |-> "a1",  recv |-> {}],
      [signer |-> "ext", recv |-> {"a1"}],
      [signer |-> "a1",  recv |-> {"a1"}] }

\* the digests of the one-sided feed of address a: sign_address = a for the
\* sent side, recv_address = a for the received side
SideDigests(a, side) ==
    { d \in 1..Len(feed) :
        IF side = "sent" THEN feed[d].signer = a ELSE a \in feed[d].recv }

\* direction stamped on the items of a side
DirectionOf_mut_always_out(side) == "Out"

DirectionOf(side) == IF side = "sent" THEN "Out" ELSE "In"

Max(S) == CHOOSE x \in S : \A y \in S : y <= x

\* the n largest elements of a set of digests, newest (largest) first
RECURSIVE NewestFirst(_, _)
NewestFirst(S, n) ==
    IF S = {} \/ n = 0 THEN <<>>
    ELSE <<Max(S)>> \o NewestFirst(S \ {Max(S)}, n - 1)

\* the limit fetch_paginated asks for
PageRequestLimit == 50

\* the PaginationFilter of one request (cursor 0: no cursor)
PaginationFilter(cursor) ==
    [direction |-> "Backward", cursor |-> cursor, limit |-> PageRequestLimit]

Min(a, b) == IF a <= b THEN a ELSE b

\* the answer of transactions_data_effects(filter, pagination) to a
\* Backward request: the newest items before the cursor, as many as the
\* request's limit and the node's page size allow, whether older items
\* remain, and the cursor of the oldest item returned (none when the page
\* is empty or the node leaves the cursor out)
Page(a, side, pagination) ==
    LET older == { d \in SideDigests(a, side) :
                     pagination.cursor = 0 \/ d < pagination.cursor }
        data  == NewestFirst(older, Min(pagination.limit, plimit))
    IN  [ data |-> data,
          has_previous_page |->
              data # <<>> /\ \E d \in older : d < data[Len(data)],
          start_cursor |-> IF data = <<>> \/ pinfo = "no_cursor"
                           THEN 0 ELSE data[Len(data)] ]

\* the same between the two addresses of the wallet: a1 pays a2, a2 pays
\* a1, a1 pays itself
KeyShapes ==
    { [signer |-> "a1", recv |-> {"a2"}],
      [signer |-> "a2", recv |-> {"a1"}],
      [signer |-> "a1", recv |-> {"a1"}] }

\* a transaction lands on the chain in the current epoch
TxLandOf(shapes) ==
    /\ Len(feed) < MaxTx
    /\ \E sh \in shapes :
         feed' = Append(feed, [epoch |-> epoch, signer |-> sh.signer,
                               recv |-> sh.recv])
    /\ UNCHANGED <<epoch, cachevars, sync, wvars, hvars, mvars, xvars, yvars>>

TxLand == TxLandOf(TxShapes)

TxLandKeys == TxLandOf(KeyShapes)

\* the chain moves to its next epoch
EpochTick ==
    /\ epoch < MaxEpoch
    /\ epoch' = epoch + 1
    /\ UNCHANGED <<feed, cachevars, sync, wvars, hvars, mvars, xvars, yvars>>

(***************************************************************************)
(* Transaction cache.  Its code is not among the source files read; the    *)
(* operations are modelled from the specification: known_digests,          *)
(* get_sync_epoch, and commit_sync as one atomic commit.                   *)
(***************************************************************************)
known_digests(a) == { r.digest : r \in cache[a] }

get_sync_epoch(a) == syncPoint[a]

\* rows after the upsert of the summaries of a list, one after another: the
\* summary takes the place of the row stored under its digest, if any
RECURSIVE StoreAll(_, _)
StoreAll(rows, list) ==
    IF list = <<>> THEN rows
    ELSE LET s == Head(list)
         IN  StoreAll({r \in rows : r.digest # s.digest} \cup {s},
                      Tail(list))

\* the cache rows of address a after commit_sync(a, sent, recv, _): every
\* summary of recv and of sent is upserted; a digest that both lists hold
\* is stored with the summary of sent
commit_sync_rows_mut_insert(a, sent, recv) ==
    cache[a] \cup { sent[k] : k \in 1..Len(sent) }
             \cup { recv[k] : k \in 1..Len(recv) }

commit_sync_rows(a, sent, recv) == StoreAll(StoreAll(cache[a], recv), sent)

\* the cache after clear(a): the rows of the address are deleted; the
\* sync point is deleted with them (reset) or kept
clear(a) ==
    /\ cache[a] # {} \/ syncPoint[a] # 0
    /\ cache' = [cache EXCEPT ![a] = {}]
    /\ \/ syncPoint' = [syncPoint EXCEPT ![a] = 0] /\ writer' = [writer EXCEPT ![a] = "none"]
       \/ UNCHANGED <<syncPoint, writer>>
    /\ UNCHANGED <<chainvars, sync, wvars, hvars, mvars, xvars, yvars>>

(***************************************************************************)
(* sync_transactions                                                       *)
(***************************************************************************)
\* a task that has not been started
Fresh ==
    [ pc |-> "idle", addr |-> "none", lookback |-> 0,
      handle |-> FALSE, opens |-> 0,
      known |-> {}, last |-> 0, cur |-> 0, minE |-> 0,
      cursor |-> [s \in Sides |-> 0],
      all |-> [s \in Sides |-> <<>>],
      sdone |-> [s \in Sides |-> FALSE],
      qlen |-> [s \in Sides |-> 0],
      reqs |-> [s \in Sides |-> <<>>],
      seen |-> [s \in Sides |-> 0],
      got |-> {},
      at |-> "none", commit |-> "none", ret |-> NoRet ]

\* the digests a task has collected on its two sides
Collected(t) ==
    { t.all["sent"][k].digest : k \in 1..Len(t.all["sent"]) } \cup
    { t.all["recv"][k].digest : k \in 1..Len(t.all["recv"]) }

\* a task that ended without committing: its locals are dropped; what is
\* kept for the record is where it ended (at), the digests it had collected
\* (got), the outcome of commit_sync and its result
Ended(t, pc, ret) ==
    [ Fresh EXCEPT !.pc = pc, !.addr = t.addr, !.got = Collected(t),
                   !.at = t.pc, !.commit = t.commit, !.ret = ret ]

\* a task that returned Ok(()): kept for the record are also the epochs it
\* read and computed, the number of times it opened the cache and the
\* length of the feed when each side was first queried
Returned(t, ret) ==
    [ Ended(t, "done", ret) EXCEPT !.opens = t.opens, !.last = t.last,
                                   !.cur = t.cur, !.minE = t.minE,
                                   !.qlen = t.qlen ]

OkUnit == [kind |-> "ok"]

\* oldest epoch to fetch: the lookback window, widened to the last sync
\* point when that lies before the window
sync_min_epoch_mut_no_bridge(current_epoch, lookback_epochs, last_synced_epoch) ==
    IF current_epoch >= lookback_epochs
    THEN current_epoch - lookback_epochs ELSE 0

sync_min_epoch_mut_no_zero_check(current_epoch, lookback_epochs, last_synced_epoch) ==
    LET window_min == IF current_epoch >= lookback_epochs
                      THEN current_epoch - lookback_epochs ELSE 0
    IN  IF last_synced_epoch < window_min
        THEN last_synced_epoch
        ELSE window_min

sync_min_epoch_mut_always_last(current_epoch, lookback_epochs, last_synced_epoch) ==
    LET window_min == IF current_epoch >= lookback_epochs
                      THEN current_epoch - lookback_epochs ELSE 0
    IN  IF last_synced_epoch > 0
        THEN last_synced_epoch
        ELSE window_min

sync_min_epoch(current_epoch, lookback_epochs, last_synced_epoch) ==
    LET window_min == IF current_epoch >= lookback_epochs
                      THEN current_epoch - lookback_epochs ELSE 0
    IN  IF last_synced_epoch > 0 /\ last_synced_epoch < window_min
        THEN last_synced_epoch
        ELSE window_min

\* Phase 1, first half: the call opens the cache and reads the known
\* digests of (network, address)
sync_begin_at(i, address) ==
    /\ sync[i].pc = "idle"
    /\ i = "s2" => sync["s1"].pc # "idle"
    /\ \E L \in 0..MaxLookback :
         LET t == [sync[i] EXCEPT !.addr = address, !.lookback = L, !.opens = 1]
         IN  \/ sync' = [sync EXCEPT ![i] =
                    Ended(t, "err", Err(<<"TransactionCache::open">>))]
             \/ sync' = [sync EXCEPT ![i] =
                    Ended(t, "err", Err(<<"known_digests">>))]
             \/ sync' = [sync EXCEPT ![i] =
                    [t EXCEPT !.pc = "p1_epoch", !.handle = TRUE,
                              !.known = known_digests(address)]]
    /\ UNCHANGED <<chainvars, cachevars, wvars, hvars, mvars, xvars, yvars>>

sync_begin(i) == sync_begin_at(i, SyncAddr)

\* a call for any of the addresses
sync_begin_any(i) == \E address \in Addrs : sync_begin_at(i, address)

\* Phase 1, second half: the sync point is read, the block ends (the cache
\* handle is dropped) and the epoch query is awaited
sync_read_epoch_mut_keeps_handle(i) ==
    /\ sync[i].pc = "p1_epoch"
    /\ \/ sync' = [sync EXCEPT ![i] =
              Ended(sync[i], "err", Err(<<"get_sync_epoch">>))]
       \/ sync' = [sync EXCEPT ![i] =
              [sync[i] EXCEPT !.pc = "await_epoch",
                              !.last = get_sync_epoch(sync[i].addr)]]
    /\ UNCHANGED <<chainvars, cachevars, wvars, hvars, mvars, xvars, yvars>>

sync_read_epoch(i) ==
    /\ sync[i].pc = "p1_epoch"
    /\ \/ sync' = [sync EXCEPT ![i] =
              Ended(sync[i], "err", Err(<<"get_sync_epoch">>))]
       \/ sync' = [sync EXCEPT ![i] =
              [sync[i] EXCEPT !.pc = "await_epoch", !.handle = FALSE,
                              !.last = get_sync_epoch(sync[i].addr)]]
    /\ UNCHANGED <<chainvars, cachevars, wvars, hvars, mvars, xvars, yvars>>

\* Phase 2: client.epoch(None) resolves; min_epoch is computed and both
\* sides start to paginate
sync_epoch_return(i) ==
    /\ sync[i].pc = "await_epoch"
    /\ \/ sync' = [sync EXCEPT ![i] =
              Ended(sync[i], "err", Err(<<"Failed to query current epoch">>))]
       \/ sync' = [sync EXCEPT ![i] =
              Ended(sync[i], "err", Err(<<"No epoch data available">>))]
       \/ sync' = [sync EXCEPT ![i] =
              [sync[i] EXCEPT
                  !.pc = "fetching",
                  !.cur = epoch,
                  !.minE = sync_min_epoch(epoch, sync[i].lookback, sync[i].last),
                  !.lookback = 0]]
    /\ UNCHANGED <<chainvars, cachevars, wvars, hvars, mvars, xvars, yvars>>

(***************************************************************************)
(* fetch_paginated                                                         *)
(***************************************************************************)
\* the summary made of a feed item, stamped with the side's direction
transaction_summary_from_graphql(d, direction) ==
    [digest |-> d, epoch |-> feed[d].epoch, direction |-> direction]

\* what the page loop does with one item: an item below min_epoch sets
\* hit_boundary and is skipped, a known digest is skipped, any other item
\* is collected
item_verdict_mut_stop_at_known(digest, item_epoch, known, min_epoch) ==
    IF item_epoch < min_epoch THEN "boundary"
    ELSE IF digest \in known THEN "boundary"
    ELSE "collect"

item_verdict(digest, item_epoch, known, min_epoch) ==
    IF item_epoch < min_epoch THEN "boundary"
    ELSE IF digest \in known THEN "skip"
    ELSE "collect"

\* the loop over the items of one page: the summaries pushed to `all`, in
\* page order, whether hit_boundary was set, and the number of items the
\* loop visited
RECURSIVE process_page(_, _, _, _)
process_page(data, known, min_epoch, direction) ==
    IF data = <<>>
    THEN [all |-> <<>>, hit_boundary |-> FALSE, examined |-> 0]
    ELSE LET d    == Head(data)
             v    == item_verdict(d, feed[d].epoch, known, min_epoch)
             rest == process_page(Tail(data), known, min_epoch, direction)
         IN  [ all |-> (IF v = "collect"
                        THEN <<transaction_summary_from_graphql(d, direction)>>
                        ELSE <<>>) \o rest.all,
               hit_boundary |-> (v = "boundary") \/ rest.hit_boundary,
               examined |-> 1 + rest.examined ]

\* the task after one page of a side has been answered and processed
after_page_mut_stop_when_nothing_new(t, side) ==
    LET pagination == PaginationFilter(t.cursor[side])
        page == Page(t.addr, side, pagination)
        r    == process_page(page.data, t.known, t.minE, DirectionOf(side))
        stop == \/ page.data = <<>>
                \/ r.hit_boundary
                \/ r.all = <<>>
                \/ ~page.has_previous_page
        t1   == [t EXCEPT
                   !.all[side] = @ \o r.all,
                   !.cursor[side] = IF stop THEN 0 ELSE page.start_cursor,
                   !.sdone[side] = stop,
                   !.qlen[side] = IF t.reqs[side] = <<>> THEN Len(feed) ELSE @,
                   !.reqs[side] = Append(@, pagination),
                   !.seen[side] = @ + r.examined]
    IN  IF \A s \in Sides : t1.sdone[s]
        THEN [t1 EXCEPT !.pc = "p3"]
        ELSE t1

after_page_mut_ignore_boundary(t, side) ==
    LET pagination == PaginationFilter(t.cursor[side])
        page == Page(t.addr, side, pagination)
        r    == process_page(page.data, t.known, t.minE, DirectionOf(side))
        stop == \/ page.data = <<>>
                \/ ~page.has_previous_page
        t1   == [t EXCEPT
                   !.all[side] = @ \o r.all,
                   !.cursor[side] = IF stop THEN 0 ELSE page.start_cursor,
                   !.sdone[side] = stop,
                   !.qlen[side] = IF t.reqs[side] = <<>> THEN Len(feed) ELSE @,
                   !.reqs[side] = Append(@, pagination),
                   !.seen[side] = @ + r.examined]
    IN  IF \A s \in Sides : t1.sdone[s]
        THEN [t1 EXCEPT !.pc = "p3"]
        ELSE t1

after_page(t, side) ==
    LET pagination == PaginationFilter(t.cursor[side])
        page == Page(t.addr, side, pagination)
        r    == process_page(page.data, t.known, t.minE, DirectionOf(side))
        stop == \/ page.data = <<>>
                \/ r.hit_boundary
                \/ ~page.has_previous_page
        t1   == [t EXCEPT
                   !.all[side] = @ \o r.all,
                   !.cursor[side] = IF stop THEN 0 ELSE page.start_cursor,
                   !.sdone[side] = stop,
                   !.qlen[side] = IF t.reqs[side] = <<>> THEN Len(feed) ELSE @,
                   !.reqs[side] = Append(@, pagination),
                   !.seen[side] = @ + r.examined]
    IN  IF \A s \in Sides : t1.sdone[s]
        THEN [t1 EXCEPT !.pc = "p3"]
        ELSE t1

\* one request of the pagination loop of a side resolves: the request
\* fails, or its page is processed and the loop stops or moves its cursor
fetch_page_step(i, side) ==
    /\ sync[i].pc = "fetching"
    /\ ~sync[i].sdone[side]
    /\ Len(sync[i].reqs[side]) < MaxRequests
    /\ \/ sync' = [sync EXCEPT ![i] =
              Ended(sync[i], "err", Err(<<"Failed to query transactions">>))]
       \/ sync' = [sync EXCEPT ![i] = after_page(sync[i], side)]
    /\ UNCHANGED <<chainvars, wvars, hvars, mvars, xvars, yvars>>

fetch_page_mut_writes_rows(i, side) ==
    /\ fetch_page_step(i, side)
    /\ cache' = [cache EXCEPT ![sync[i].addr] =
                    IF sync'[i].pc \in {"fetching", "p3"}
                    THEN StoreAll(@, sync'[i].all[side])
                    ELSE @]
    /\ UNCHANGED <<syncPoint, writer>>

fetch_page(i, side) ==
    /\ fetch_page_step(i, side)
    /\ UNCHANGED cachevars

(***************************************************************************)
(* Phase 3 of sync_transactions and cancellation.                          *)
(***************************************************************************)
\* the arguments sync_transactions passes to commit_sync
sync_commit_args_mut_no_recv(t) ==
    [address |-> t.addr,
     sent |-> t.all["sent"], recv |-> <<>>, current_epoch |-> t.cur]

sync_commit_args_mut_next_epoch(t) ==
    [address |-> t.addr,
     sent |-> t.all["sent"], recv |-> t.all["recv"], current_epoch |-> t.cur + 1]

sync_commit_args_mut_swap_sides(t) ==
    [address |-> t.addr,
     sent |-> t.all["recv"], recv |-> t.all["sent"], current_epoch |-> t.cur]

sync_commit_args_mut_other_key(t) ==
    [address |-> CHOOSE a \in Addrs : a # t.addr,
     sent |-> t.all["sent"], recv |-> t.all["recv"], current_epoch |-> t.cur]

sync_commit_args(t) ==
    [address |-> t.addr,
     sent |-> t.all["sent"], recv |-> t.all["recv"], current_epoch |-> t.cur]

\* what sync_transactions returns for the outcome of commit_sync
sync_commit_result_mut_swallow(outcome) == OkUnit

sync_commit_result(outcome) ==
    IF outcome = "failed" THEN Err(<<"commit_sync">>) ELSE OkUnit

\* the task after commit_sync has answered
after_commit(t, outcome) ==
    LET ret == sync_commit_result(outcome)
        t1  == [t EXCEPT !.opens = 2, !.commit = outcome]
    IN  IF ret.kind = "err"
        THEN Ended(t1, "err", ret)
        ELSE Returned(t1, ret)

\* Phase 3: both sides have returned; the cache is opened again and
\* commit_sync stores the rows and the sync point in one atomic commit
sync_commit_mut_keep_max(i) ==
    /\ sync[i].pc = "p3"
    /\ LET t    == sync[i]
           args == sync_commit_args(t)
       IN  \/ /\ sync' = [sync EXCEPT ![i] =
                    Ended([t EXCEPT !.opens = 2], "err",
                          Err(<<"TransactionCache::open">>))]
              /\ UNCHANGED cachevars
           \/ /\ sync' = [sync EXCEPT ![i] = after_commit(t, "failed")]
              /\ UNCHANGED cachevars
           \/ /\ sync' = [sync EXCEPT ![i] = after_commit(t, "ok")]
              /\ cache' = [cache EXCEPT ![args.address] =
                              commit_sync_rows(args.address, args.sent, args.recv)]
              /\ syncPoint' = [syncPoint EXCEPT ![args.address] =
                              Max({@, args.current_epoch})]
              /\ writer' = [writer EXCEPT ![args.address] = i]
    /\ UNCHANGED <<chainvars, wvars, hvars, mvars, xvars, yvars>>

sync_commit(i) ==
    /\ sync[i].pc = "p3"
    /\ LET t    == sync[i]
           args == sync_commit_args(t)
       IN  \/ /\ sync' = [sync EXCEPT ![i] =
                    Ended([t EXCEPT !.opens = 2], "err",
                          Err(<<"TransactionCache::open">>))]
              /\ UNCHANGED cachevars
           \/ /\ sync' = [sync EXCEPT ![i] = after_commit(t, "failed")]
              /\ UNCHANGED cachevars
           \/ /\ sync' = [sync EXCEPT ![i] = after_commit(t, "ok")]
              /\ cache' = [cache EXCEPT ![args.address] =
                              commit_sync_rows(args.address, args.sent, args.recv)]
              /\ syncPoint' = [syncPoint EXCEPT ![args.address] = args.current_epoch]
              /\ writer' = [writer EXCEPT ![args.address] = i]
    /\ UNCHANGED <<chainvars, wvars, hvars, mvars, xvars, yvars>>

\* the caller drops the task at a suspension point
sync_cancel(i) ==
    /\ sync[i].pc \in {"await_epoch", "fetching"}
    /\ sync' = [sync EXCEPT ![i] = Ended(sync[i], "cancelled", NoRet)]
    /\ UNCHANGED <<chainvars, cachevars, wvars, hvars, mvars, xvars, yvars>>

(***************************************************************************)
(* transactions (live read path): the two one-sided queries run in         *)
(* parallel; their results are merged, sorted and filtered.                *)
(***************************************************************************)
\* the digests of the transactions a history page may list
HistDigests == {"D1", "D2", "D3"}

\* the epochs their effects may carry
HistEpochs == {4, 5}

\* the lamport versions they may carry
HistLamports == {0, 1, 2}

TransactionFilter == {"All", "In", "Out"}

\* an item of a page of the remote feed
HistItems ==
    [digest : HistDigests, epoch : HistEpochs, lamport_version : HistLamports]

\* the pages the node may answer with: a page lists a transaction once
HistPages ==
    { p \in UNION { [1..n -> HistItems] : n \in 0..MaxPage } :
        \A k \in 1..Len(p), l \in 1..Len(p) : p[k].digest = p[l].digest => k = l }

\* a query that has not completed, and one that completed with summaries
Pending == [state |-> "pending", data |-> <<>>]

Answered(data) == [state |-> "ok", data |-> data]

OkList(list) == [kind |-> "ok", list |-> list]

Digests(list) == { list[k].digest : k \in 1..Len(list) }

\* query_transactions: every item of the page becomes a summary stamped
\* with the direction of the side
query_transactions(page, direction) ==
    [ k \in 1..Len(page) |->
        [ digest |-> page[k].digest, epoch |-> page[k].epoch,
          lamport_version |-> page[k].lamport_version,
          direction |-> direction ] ]

\* the pair try_join! yields: the results in the order of its arguments,
\* whichever future completed first
try_join_mut_completion_order(sent, recv, first) ==
    IF first = "recv" THEN <<recv, sent>> ELSE <<sent, recv>>

try_join(sent, recv, first) == <<sent, recv>>

\* the merge: all of sent, then each recv summary whose digest is not seen
merge_mut_no_seen(sent, recv) == sent \o recv

merge_mut_recv_wins(sent, recv) ==
    recv \o SelectSeq(sent, LAMBDA t : t.digest \notin Digests(recv))

merge(sent, recv) ==
    LET seen == Digests(sent)
    IN  sent \o SelectSeq(recv, LAMBDA t : t.digest \notin seen)

\* the comparator of the sort is Less for (a, b): a goes before b
goes_before(a, b) ==
    \/ b.epoch < a.epoch
    \/ b.epoch = a.epoch /\ b.lamport_version < a.lamport_version

\* x put into a sorted list behind every element it does not go before
RECURSIVE insert_sorted(_, _)
insert_sorted(x, sorted) ==
    IF sorted = <<>> THEN <<x>>
    ELSE IF goes_before(x, Head(sorted)) THEN <<x>> \o sorted
    ELSE <<Head(sorted)>> \o insert_sorted(x, Tail(sorted))

\* all.sort_by(..): a stable sort, descending by (epoch, lamport_version)
RECURSIVE sort_by_mut_ascending(_)
sort_by_mut_ascending(list) ==
    IF list = <<>> THEN <<>>
    ELSE LET x    == list[Len(list)]
             rest == sort_by_mut_ascending(SubSeq(list, 1, Len(list) - 1))
             k    == Cardinality({ j \in 1..Len(rest) : ~goes_before(rest[j], x) })
         IN  SubSeq(rest, 1, k) \o <<x>> \o SubSeq(rest, k + 1, Len(rest))

RECURSIVE sort_by(_)
sort_by(list) ==
    IF list = <<>> THEN <<>>
    ELSE insert_sorted(list[Len(list)], sort_by(SubSeq(list, 1, Len(list) - 1)))

\* the match on the filter
apply_filter(all, filter) ==
    CASE filter = "All" -> all
      [] filter = "In"  -> SelectSeq(all, LAMBDA t : t.direction = "In")
      [] filter = "Out" -> SelectSeq(all, LAMBDA t : t.direction = "Out")

\* what transactions returns for the two one-sided results
transactions_result_mut_filter_query(sent, recv, filter) ==
    CASE filter = "All" -> sort_by(merge(sent, recv))
      [] filter = "In"  -> sort_by(recv)
      [] filter = "Out" -> sort_by(sent)

transactions_result(sent, recv, filter) ==
    apply_filter(sort_by(merge(sent, recv)), filter)

\* a caller asks for the history: both one-sided queries are issued
transactions_begin ==
    /\ hpc \in {"idle", "returned"}
    /\ \E f \in TransactionFilter : hfilter' = f
    /\ hpc' = "querying"
    /\ hsent' = Pending
    /\ hrecv' = Pending
    /\ hfirst' = "none"
    /\ hret' = NoRet
    /\ UNCHANGED <<wvars, svars, mvars, xvars, yvars>>

\* two pages of one feed state agree on the transactions they both list
SameLedger(p, q) ==
    \A k \in 1..Len(p), l \in 1..Len(q) :
        p[k].digest = q[l].digest =>
            /\ p[k].epoch = q[l].epoch
            /\ p[k].lamport_version = q[l].lamport_version

\* the query of one side resolves.  A failed query ends the call with its
\* error; when both have answered the results are merged, sorted and
\* filtered and the call returns.
query_transactions_return(side) ==
    /\ hpc = "querying"
    /\ (IF side = "sent" THEN hsent ELSE hrecv) = Pending
    /\ \/ /\ hpc' = "returned"
          /\ hret' = Err(<<"Failed to query transactions">>)
          /\ UNCHANGED <<hsent, hrecv, hfirst>>
       \/ \E page \in HistPages :
            LET other == IF side = "sent" THEN hrecv ELSE hsent
                mine  == Answered(query_transactions(page, DirectionOf(side)))
                first == IF hfirst = "none" THEN side ELSE hfirst
                sent  == IF side = "sent" THEN mine ELSE hsent
                recv  == IF side = "recv" THEN mine ELSE hrecv
                pair  == try_join(sent.data, recv.data, first)
            IN  /\ SameLedger(page, other.data)
                /\ hsent' = sent
                /\ hrecv' = recv
                /\ hfirst' = first
                /\ IF other.state = "ok"
                   THEN /\ hpc' = "returned"
                        /\ hret' = OkList(transactions_result(pair[1], pair[2], hfilter))
                   ELSE UNCHANGED <<hpc, hret>>
    /\ UNCHANGED <<hfilter, wvars, svars, mvars, xvars, yvars>>

(***************************************************************************)
(* sync_min_epoch evaluated on its own, on arguments from a small cube and *)
(* on the arguments of the unit tests.                                     *)
(***************************************************************************)
\* the arguments of the tests of sync_min_epoch: <<c, L, s>>
TestArgs ==
    { <<100, 7, 0>>, <<3, 7, 0>>, <<15, 7, 14>>, <<14, 7, 3>>,
      <<100, 7, 3>>, <<101, 30, 100>>, <<100, 7, 93>> }

MinEpochArgs ==
    ((0..MaxArg) \X (0..MaxArg) \X (0..MaxArg)) \cup TestArgs

\* sync_min_epoch is called on the arguments and returns
sync_min_epoch_call ==
    /\ mres = -1
    /\ mres' = sync_min_epoch(mc, ml, ms)
    /\ UNCHANGED <<mc, ml, ms, wvars, svars, hvars, xvars, yvars>>

(***************************************************************************)
(* Amount codec (display.rs).  A text is a sequence of characters.  A u64  *)
(* is written as a three-digit numeral <<hi, mid, lo>> in base             *)
(* NANOS_PER_IOTA (2^64 - 1 = 18 * 10^18 + 446744073 * 10^9 + 709551615), *)
(* so that no intermediate value leaves the range of the integers at hand. *)
(***************************************************************************)
NANOS_PER_IOTA == 1000000000

\* u64::MAX
U64_MAX == <<18, 446744073, 709551615>>

None == [set |-> FALSE, v |-> <<>>]
Some(x) == [set |-> TRUE, v |-> x]

OkAmount(v) == [kind |-> "ok", v |-> v]

\* the ASCII digits, by value
Digits == <<"0", "1", "2", "3", "4", "5", "6", "7", "8", "9">>

IsDigit(c) == \E k \in 1..10 : Digits[k] = c

DigitValue(c) == (CHOOSE k \in 1..10 : Digits[k] = c) - 1

\* the characters str::trim removes
Whitespace == {" "}

\* order of u64 values
Leq3(a, b) ==
    \/ a[1] < b[1]
    \/ a[1] = b[1] /\ a[2] < b[2]
    \/ a[1] = b[1] /\ a[2] = b[2] /\ a[3] <= b[3]

\* value of a run of at most nine digits
RECURSIVE DecValue(_)
DecValue(s) ==
    IF s = <<>> THEN 0
    ELSE 10 * DecValue(SubSeq(s, 1, Len(s) - 1)) + DigitValue(s[Len(s)])

\* value of a run of digits of any length, most significant limb first
RECURSIVE Limbs(_)
Limbs(s) ==
    IF Len(s) <= 9 THEN <<DecValue(s)>>
    ELSE Limbs(SubSeq(s, 1, Len(s) - 9))
             \o <<DecValue(SubSeq(s, Len(s) - 8, Len(s)))>>

RECURSIVE StripZeroLimbs(_)
StripZeroLimbs(l) ==
    IF Len(l) > 1 /\ l[1] = 0 THEN StripZeroLimbs(Tail(l)) ELSE l

Pad3(l) == [k \in 1..(3 - Len(l)) |-> 0] \o l

\* str::parse::<u64>: an optional '+', then one or more ASCII digits whose
\* value fits 64 bits
u64_from_str(s) ==
    LET body == IF s # <<>> /\ s[1] = "+" THEN Tail(s) ELSE s
        l    == StripZeroLimbs(Limbs(body))
    IN  IF body = <<>> \/ \E k \in 1..Len(body) : ~IsDigit(body[k])
        THEN [ok |-> FALSE, v |-> <<>>]
        ELSE IF Len(l) > 3 \/ ~Leq3(Pad3(l), U64_MAX)
        THEN [ok |-> FALSE, v |-> <<>>]
        ELSE [ok |-> TRUE, v |-> Pad3(l)]

\* u64::checked_mul(NANOS_PER_IOTA): the numeral shifted by one limb, if it
\* still fits
checked_mul_mut_wrapping(v) == [ok |-> TRUE, v |-> <<v[2], v[3], 0>>]

checked_mul(v) ==
    IF v[1] = 0 /\ Leq3(<<v[2], v[3], 0>>, U64_MAX)
    THEN [ok |-> TRUE, v |-> <<v[2], v[3], 0>>]
    ELSE [ok |-> FALSE, v |-> <<>>]

\* u64::checked_add of a value below NANOS_PER_IOTA
checked_add(v, f) ==
    LET lo    == (v[3] + f) % NANOS_PER_IOTA
        c1    == (v[3] + f) \div NANOS_PER_IOTA
        mid   == (v[2] + c1) % NANOS_PER_IOTA
        c2    == (v[2] + c1) \div NANOS_PER_IOTA
        total == <<v[1] + c2, mid, lo>>
    IN  IF Leq3(total, U64_MAX) THEN [ok |-> TRUE, v |-> total]
        ELSE [ok |-> FALSE, v |-> <<>>]

\* decimal digits of a limb, without leading zeros
RECURSIVE ToDec(_)
ToDec(k) ==
    IF k < 10 THEN <<Digits[k + 1]>>
    ELSE Append(ToDec(k \div 10), Digits[(k % 10) + 1])

\* format!("{:0>w}") and format!("{:0<w}"): fill with '0' up to width w
pad_left_mut_pad_right(s, w) ==
    IF Len(s) >= w THEN s ELSE s \o [k \in 1..(w - Len(s)) |-> "0"]

pad_left(s, w) ==
    IF Len(s) >= w THEN s ELSE [k \in 1..(w - Len(s)) |-> "0"] \o s

pad_right(s, w) ==
    IF Len(s) >= w THEN s ELSE s \o [k \in 1..(w - Len(s)) |-> "0"]

\* Display of a u64
Display(v) ==
    IF v[1] # 0 THEN ToDec(v[1]) \o pad_left(ToDec(v[2]), 9) \o pad_left(ToDec(v[3]), 9)
    ELSE IF v[2] # 0 THEN ToDec(v[2]) \o pad_left(ToDec(v[3]), 9)
    ELSE ToDec(v[3])

nanos_to_iota_mut_no_padding(nanos) ==
    LET whole == <<0, nanos[1], nanos[2]>>
        frac  == nanos[3]
    IN  Display(whole) \o <<".">> \o ToDec(frac)

nanos_to_iota(nanos) ==
    LET whole == <<0, nanos[1], nanos[2]>>
        frac  == nanos[3]
    IN  Display(whole) \o <<".">> \o pad_left(ToDec(frac), 9)

format_balance(nanos) == nanos_to_iota(nanos) \o <<" ", "I", "O", "T", "A">>

RECURSIVE trim_start(_)
trim_start(s) ==
    IF s # <<>> /\ s[1] \in Whitespace THEN trim_start(Tail(s)) ELSE s

RECURSIVE trim_end(_)
trim_end(s) ==
    IF s # <<>> /\ s[Len(s)] \in Whitespace
    THEN trim_end(SubSeq(s, 1, Len(s) - 1)) ELSE s

trim(s) == trim_end(trim_start(s))

\* str::split(c): the pieces between the occurrences of c
RECURSIVE split(_, _)
split(s, c) ==
    IF \A k \in 1..Len(s) : s[k] # c THEN <<s>>
    ELSE LET k == CHOOSE k \in 1..Len(s) :
                      s[k] = c /\ \A j \in 1..(k - 1) : s[j] # c
         IN  <<SubSeq(s, 1, k - 1)>> \o split(SubSeq(s, k + 1, Len(s)), c)

\* the nanos of the fractional part: None when the part is refused
frac_nanos_mut_pad_left(frac_str) ==
    IF frac_str = <<>> THEN OkAmount(0)
    ELSE IF Len(frac_str) > 9
    THEN Err(<<"Too many decimal places. IOTA supports up to 9.">>)
    ELSE LET padded == u64_from_str(pad_left(frac_str, 9))
         IN  IF padded.ok THEN OkAmount(padded.v[3])
             ELSE Err(<<"Invalid fractional part: '", frac_str, "'">>)

frac_nanos(frac_str) ==
    IF frac_str = <<>> THEN OkAmount(0)
    ELSE IF Len(frac_str) > 9
    THEN Err(<<"Too many decimal places. IOTA supports up to 9.">>)
    ELSE LET padded == u64_from_str(pad_right(frac_str, 9))
         IN  IF padded.ok THEN OkAmount(padded.v[3])
             ELSE Err(<<"Invalid fractional part: '", frac_str, "'">>)

parse_iota_amount(text) ==
    LET input == trim(text)
        bare  == u64_from_str(input)
        parts == split(input, ".")
        whole == u64_from_str(parts[1])
        frac  == IF Len(parts) = 2 THEN frac_nanos(parts[2]) ELSE OkAmount(0)
        w     == checked_mul(whole.v)
        total == checked_add(w.v, frac.v)
    IN  IF input = <<>> THEN Err(<<"Amount cannot be empty">>)
        ELSE IF input[1] = "-" THEN Err(<<"Amount must be positive">>)
        ELSE IF bare.ok
        THEN IF checked_mul(bare.v).ok THEN OkAmount(checked_mul(bare.v).v)
             ELSE Err(<<"Amount too large">>)
        ELSE IF Len(parts) > 2
        THEN Err(<<"Invalid amount format. Use IOTA units like '1.5' or '0.001'.">>)
        ELSE IF ~whole.ok THEN Err(<<"Invalid whole part: '", parts[1], "'">>)
        ELSE IF frac.kind = "err" THEN frac
        ELSE IF ~w.ok THEN Err(<<"Amount too large">>)
        ELSE IF ~total.ok THEN Err(<<"Amount too large">>)
        ELSE OkAmount(total.v)

(***************************************************************************)
(* The codec's inputs and its calls.                                       *)
(***************************************************************************)
\* characters of the short texts handed to parse_iota_amount
AmountChars == {"0", "1", "9", ".", "-", "+", "e", "a", " "}

\* every text of at most MaxText characters
ShortTexts ==
    UNION { [1..n -> AmountChars] : n \in 0..MaxText }

\* the inputs of the unit tests of parse_iota_amount, and inputs around the
\* largest amount
AmountTests ==
    { <<"1", ".", "5">>,
      <<"1">>,
      <<"0", ".", "0", "0", "1">>,
      <<"1", ".", "1", "2", "3", "4", "5", "6", "7", "8", "9">>,
      <<"1", ".", "1", "2", "3", "4", "5", "6", "7", "8", "9", "0">>,
      <<"a", "b", "c">>,
      <<"0", ".", "0">>,
      <<"-", "0", ".", "5">>,
      <<"1", ".">>,
      <<"0", ".", "0", "0", "0", "0", "0", "0", "0", "0", "1">>,
      <<"1", "2", "3", ".", "4", "5", "6", "7", "8", "9", "0", "1", "2">>,
      <<" ", " ", "2", ".", "5", "0", " ">>,
      <<"1", "8", "4", "4", "6", "7", "4", "4", "0", "7", "3">>,
      <<"1", "8", "4", "4", "6", "7", "4", "4", "0", "7", "4">>,
      <<"1", "8", "4", "4", "6", "7", "4", "4", "0", "7", "3", ".", "7", "0", "9", "5", "5", "1", "6", "1", "5">>,
      <<"1", "8", "4", "4", "6", "7", "4", "4", "0", "7", "3", ".", "7", "0", "9", "5", "5", "1", "6", "1", "6">>,
      <<"1", "8", "4", "4", "6", "7", "4", "4", "0", "7", "4", ".", "0">>,
      <<"1", "8", "4", "4", "6", "7", "4", "4", "0", "7", "3", "7", "0", "9", "5", "5", "1", "6", "1", "5">>,
      <<"1", "8", "4", "4", "6", "7", "4", "4", "0", "7", "3", "7", "0", "9", "5", "5", "1", "6", "1", "6">>,
      <<"+", "1", ".", "5">>,
      <<"1", ".", "+", "5">>,
      <<"1", ".", "5", "e", "3">>,
      <<"1", ".", "2", ".", "3">>,
      <<"0", "0", "0", "1", "8", "4", "4", "6", "7", "4", "4", "0", "7", "3", ".", "7">> }

AmountTexts == ShortTexts \cup AmountTests

\* amounts handed to the formatters: the values of the unit tests, small
\* values, and values around 2^64 / 10^9 and 2^64 - 1
AmountNanos ==
    { v \in {0, 1, 18} \X {0, 1, 2, 18, 123, 446744072, 446744073, 999999999}
              \X {0, 1, 10, 446744073, 446744074, 500000000, 456789012,
                  709551615, 709551616, 999999999} :
        Leq3(v, U64_MAX) }

nanos_to_iota_call ==
    /\ anum.set
    /\ ~astr.set
    /\ astr' = Some(nanos_to_iota(anum.v))
    /\ UNCHANGED <<anum, abal, ares>>
    /\ UNCHANGED <<wvars, svars, hvars, mvars, cvars, nvars, yvars>>

format_balance_call ==
    /\ anum.set
    /\ ~abal.set
    /\ abal' = Some(format_balance(anum.v))
    /\ UNCHANGED <<anum, astr, ares>>
    /\ UNCHANGED <<wvars, svars, hvars, mvars, cvars, nvars, yvars>>

parse_iota_amount_call ==
    /\ astr.set
    /\ ares = NoRet
    /\ ares' = parse_iota_amount(astr.v)
    /\ UNCHANGED <<anum, astr, abal>>
    /\ UNCHANGED <<wvars, svars, hvars, mvars, cvars, nvars, yvars>>

(***************************************************************************)
(* Transaction filter tokens (TransactionFilter::from_str, from_str_opt)   *)
(* and the show_transfers branch of Command::parse.                        *)
(***************************************************************************)
FilterUpper == <<"I", "N", "O", "U", "T", "A", "L">>

FilterLower == <<"i", "n", "o", "u", "t", "a", "l">>

\* characters of the tokens handed to the filter parser
FilterChars ==
    {FilterUpper[k] : k \in 1..7} \cup {FilterLower[k] : k \in 1..7} \cup {"x"}

\* every token of one to MaxToken characters (a token holds no whitespace)
FilterTokens ==
    UNION { [1..n -> FilterChars] : n \in 1..MaxToken }

to_lowercase(s) ==
    [k \in 1..Len(s) |->
        IF \E j \in 1..7 : FilterUpper[j] = s[k]
        THEN FilterLower[CHOOSE j \in 1..7 : FilterUpper[j] = s[k]]
        ELSE s[k]]

OkFilter(f) == [kind |-> "ok", filter |-> f]

\* TransactionFilter::from_str
from_str(s) ==
    LET other == to_lowercase(s)
    IN  IF other = <<"i", "n">> THEN OkFilter("In")
        ELSE IF other = <<"o", "u", "t">> THEN OkFilter("Out")
        ELSE IF other = <<"a", "l", "l">> THEN OkFilter("All")
        ELSE Err(<<"Unknown transaction filter: '", other,
                   "'. Use 'in', 'out', or 'all'.">>)

\* TransactionFilter::from_str_opt: s.and_then(|s| s.parse().ok())
\*                                   .unwrap_or(Self::All)
from_str_opt(s) ==
    IF s.set /\ from_str(s.v).kind = "ok" THEN from_str(s.v).filter ELSE "All"

OkShowTransfers(f) == [kind |-> "ok", command |-> "ShowTransfers", filter |-> f]

\* Command::parse on "show_transfers", "transfers" or "txs" with the
\* optional argument arg1
parse_show_transfers(arg1) == OkShowTransfers(from_str_opt(arg1))

\* TransactionFilter::from_str is called on the token
from_str_call ==
    /\ ftok.set
    /\ fres = NoRet
    /\ fres' = from_str(ftok.v)
    /\ UNCHANGED <<ftok, fcmd>>
    /\ UNCHANGED <<wvars, svars, hvars, mvars, avars, nvars, yvars>>

\* Command::parse is called on a show_transfers line that carries the token
\* (if any) as its argument
Command_parse ==
    /\ fcmd = NoRet
    /\ fcmd' = parse_show_transfers(ftok)
    /\ UNCHANGED <<ftok, fres>>
    /\ UNCHANGED <<wvars, svars, hvars, mvars, avars, nvars, yvars>>

(***************************************************************************)
(* NetworkClient::new, NetworkClient::faucet, the Faucet branch of         *)
(* Command::execute, and the WalletService facade.                         *)
(***************************************************************************)
Networks == {"Mainnet", "Testnet", "Devnet", "Custom"}

\* node URLs a configuration may carry: one Client::new accepts, one it
\* refuses
Urls == {"https://node.example", "not a url"}

\* custom_url: None
NoUrl == "none"

NetworkConfigs ==
    [network : Networks, custom_url : {NoUrl} \cup Urls]

OkClient(network) == [kind |-> "ok", network |-> network]

\* NetworkClient::new
NetworkClient_new_mut_url_first(config) ==
    IF config.custom_url = NoUrl
    THEN Err(<<"Custom network requires a node URL">>)
    ELSE OkClient(config.network)

NetworkClient_new(config) ==
    IF config.network = "Custom"
    THEN IF config.custom_url = NoUrl
         THEN Err(<<"Custom network requires a node URL">>)
         ELSE IF config.custom_url = "not a url"
         THEN Err(<<"Failed to create client with custom URL">>)
         ELSE OkClient(config.network)
    ELSE OkClient(config.network)

\* the signers a service may be built on, and the address each controls
Signers == {"k1", "k2"}

SignerAddress(k) == IF k = "k1" THEN "a1" ELSE "a2"

\* no service has been built
NoService == "none"

\* NetworkClient::faucet up to its await: the error it bails with, or the
\* faucet endpoint it sends its request to
faucet_mut_custom_uses_devnet(network) ==
    CASE network = "Mainnet" ->
           [err |-> <<"Faucet is not available on mainnet">>, endpoint |-> "none"]
      [] network = "Testnet" -> [err |-> <<>>, endpoint |-> "faucet.testnet"]
      [] OTHER               -> [err |-> <<>>, endpoint |-> "faucet.devnet"]

faucet(network) ==
    CASE network = "Mainnet" ->
           [err |-> <<"Faucet is not available on mainnet">>, endpoint |-> "none"]
      [] network = "Testnet" -> [err |-> <<>>, endpoint |-> "faucet.testnet"]
      [] network = "Devnet"  -> [err |-> <<>>, endpoint |-> "faucet.devnet"]
      [] network = "Custom"  ->
           [err |-> <<"Faucet is not available for custom networks",
                      ". Use --testnet or --devnet.">>,
            endpoint |-> "none"]

NoOp == [pc |-> "idle", via |-> "none", is_mainnet |-> FALSE,
         address |-> "none", sent |-> <<>>]

\* a faucet call enters through `via`; is_mainnet is the answer of
\* wallet.is_mainnet() on the Command path (FALSE on the service's path,
\* which does not ask)
faucet_begin(via, address, is_mainnet) ==
    /\ nclient.kind = "ok"
    /\ nop.pc \in {"idle", "returned"}
    /\ IF is_mainnet
       THEN /\ nop' = [pc |-> "returned", via |-> via, is_mainnet |-> TRUE,
                       address |-> address, sent |-> <<>>]
            /\ nret' = Err(<<"Faucet is not available on mainnet", ".">>)
       ELSE IF faucet(nclient.network).endpoint = "none"
       THEN /\ nop' = [pc |-> "returned", via |-> via, is_mainnet |-> FALSE,
                       address |-> address, sent |-> <<>>]
            /\ nret' = Err(faucet(nclient.network).err)
       ELSE /\ nop' = [pc |-> "awaiting", via |-> via, is_mainnet |-> FALSE,
                       address |-> address,
                       sent |-> <<[endpoint |-> faucet(nclient.network).endpoint,
                                   address |-> address]>>]
            /\ nret' = NoRet

\* the configuration is handed to NetworkClient::new
NetworkClient_new_call ==
    /\ nclient = NoRet
    /\ nclient' = NetworkClient_new(ncfg)
    /\ UNCHANGED <<ncfg, service, forwarded, txs, nop, nret>>
    /\ UNCHANGED <<wvars, svars, hvars, mvars, avars, cvars, yvars>>

\* WalletService::new on a constructed client and a signer
WalletService_new ==
    /\ nclient.kind = "ok"
    /\ service = NoService
    /\ \E k \in Signers : service' = k
    /\ UNCHANGED <<ncfg, nclient, forwarded, txs, nop, nret>>
    /\ UNCHANGED <<wvars, svars, hvars, mvars, avars, cvars, yvars>>

\* the arguments a write of the service hands to the network client
service_write_args_mut_first_account(signer) ==
    [signer |-> signer, sender |-> "a1"]

service_write_args(signer) ==
    [signer |-> signer, sender |-> SignerAddress(signer)]

\* a call of the network client as the service issues it
Call(method, address, signer) ==
    [method |-> method, address |-> address, signer |-> signer]

\* a read forwarded with the signer's address
service_read(method) ==
    /\ service # NoService
    /\ Len(forwarded) < MaxForward
    /\ forwarded' = Append(forwarded, Call(method, SignerAddress(service), "none"))
    /\ UNCHANGED <<ncfg, nclient, service, txs, nop, nret>>
    /\ UNCHANGED <<wvars, svars, hvars, mvars, avars, cvars, yvars>>

\* a read forwarded without an address
service_lookup(method) ==
    /\ service # NoService
    /\ Len(forwarded) < MaxForward
    /\ forwarded' = Append(forwarded, Call(method, "none", "none"))
    /\ UNCHANGED <<ncfg, nclient, service, txs, nop, nret>>
    /\ UNCHANGED <<wvars, svars, hvars, mvars, avars, cvars, yvars>>

\* a write forwarded with the signer and its address: the network client
\* builds the transaction for the sender it is given
\* (TransactionBuilder::new(*sender)) and, unless the protocol fails before,
\* has it signed by the signer it is given
service_write(method) ==
    /\ service # NoService
    /\ Len(forwarded) < MaxForward
    /\ LET args == service_write_args(service)
       IN  /\ forwarded' = Append(forwarded, Call(method, args.sender, args.signer))
           /\ \E signed \in BOOLEAN :
                txs' = Append(txs, [method |-> method,
                                    sender |-> args.sender,
                                    signed_by |-> IF signed THEN args.signer
                                                            ELSE "none"])
    /\ UNCHANGED <<ncfg, nclient, service, nop, nret>>
    /\ UNCHANGED <<wvars, svars, hvars, mvars, avars, cvars, yvars>>

service_balance == service_read("balance")

service_send == service_write("send_iota")

\* sweep_all is forwarded like the other writes; what the network client
\* builds for it is not part of the source at hand
service_sweep_all ==
    /\ service # NoService
    /\ Len(forwarded) < MaxForward
    /\ LET args == service_write_args(service)
       IN  forwarded' = Append(forwarded, Call("sweep_all", args.sender, args.signer))
    /\ UNCHANGED <<ncfg, nclient, service, txs, nop, nret>>
    /\ UNCHANGED <<wvars, svars, hvars, mvars, avars, cvars, yvars>>

service_stake == service_write("stake_iota")

service_unstake == service_write("unstake_iota")

service_faucet ==
    /\ service # NoService
    /\ Len(forwarded) < MaxForward
    /\ forwarded' = Append(forwarded, Call("faucet", SignerAddress(service), "none"))
    /\ faucet_begin("service", SignerAddress(service), FALSE)
    /\ UNCHANGED <<ncfg, nclient, service, txs>>
    /\ UNCHANGED <<wvars, svars, hvars, mvars, avars, cvars, yvars>>

service_get_stakes == service_read("get_stakes")

service_get_token_balances == service_read("get_token_balances")

service_sync_transactions == service_read("sync_transactions")

service_transaction_details == service_lookup("transaction_details")

service_status == service_lookup("status")

\* Command::execute on Command::Faucet: wallet.is_mainnet() is asked first
\* (wallet.rs is not part of the source at hand: either answer), then
\* network.faucet(wallet.address()) is awaited
Command_execute_Faucet ==
    /\ \E address \in Addrs, is_mainnet \in BOOLEAN :
         faucet_begin("command", address, is_mainnet)
    /\ UNCHANGED <<ncfg, nclient, service, forwarded, txs>>
    /\ UNCHANGED <<wvars, svars, hvars, mvars, avars, cvars, yvars>>

\* request_and_wait resolves
faucet_return ==
    /\ nop.pc = "awaiting"
    /\ nop' = [nop EXCEPT !.pc = "returned"]
    /\ \E ok \in BOOLEAN :
         nret' = IF ok THEN OkUnit ELSE Err(<<"Faucet request failed: ", "e">>)
    /\ UNCHANGED <<ncfg, nclient, service, forwarded, txs>>
    /\ UNCHANGED <<wvars, svars, hvars, mvars, avars, cvars, yvars>>

(***************************************************************************)
(* get_stakes: the nodes of the stakedIotas answer are mapped to           *)
(* summaries.  A JSON value is a record of its kind and its content; an    *)
(* absent key and a null read alike.                                       *)
(***************************************************************************)
\* a key that is absent, a string value, a number value
JAbsent == [kind |-> "absent", s |-> "", n |-> 0]
JStr(s) == [kind |-> "str", s |-> s, n |-> 0]
JNum(n) == [kind |-> "num", s |-> "", n |-> n]
\* a string value whose text is kept character by character
JText(t) == [kind |-> "str", s |-> t, n |-> 0]
JNoText == [kind |-> "absent", s |-> <<>>, n |-> 0]

\* serde_json::Value::as_str and as_u64
as_str(v) == [set |-> v.kind = "str", v |-> v.s]

as_u64(v) == [set |-> v.kind = "num", v |-> v.n]

\* the texts ObjectId::from_hex accepts
HexIds == {"0x01", "0x02"}

\* ObjectId::from_hex(s).ok()
from_hex(s) == [set |-> s \in HexIds, v |-> IF s \in HexIds THEN s ELSE ""]

\* json_object_id(node, key), given the value under the key
json_object_id(v) ==
    IF as_str(v).set THEN from_hex(as_str(v).v) ELSE [set |-> FALSE, v |-> ""]

\* json_str_field::<u64>(node, key), given the value under the key
json_str_field(v) ==
    IF as_str(v).set /\ u64_from_str(as_str(v).v).ok
    THEN Some(u64_from_str(as_str(v).v).v)
    ELSE None

\* the match on stakeStatus
stake_status_mut_ignore_case(v) ==
    IF as_str(v).set /\ as_str(v).v \in {"ACTIVE", "active"} THEN "Active"
    ELSE IF as_str(v).set /\ as_str(v).v \in {"PENDING", "pending"} THEN "Pending"
    ELSE "Unstaked"

stake_status(v) ==
    IF as_str(v).set /\ as_str(v).v = "ACTIVE" THEN "Active"
    ELSE IF as_str(v).set /\ as_str(v).v = "PENDING" THEN "Pending"
    ELSE "Unstaked"

\* one iteration of the loop over the nodes: what is pushed to `stakes`
stake_of_node(node) ==
    LET object_id == json_object_id(node.address)
        pool_id   == json_object_id(node.poolId)
        principal == IF json_str_field(node.principal).set
                     THEN json_str_field(node.principal).v ELSE <<0, 0, 0>>
        stake_activation_epoch ==
            IF as_u64(node.activatedEpoch).set
            THEN as_u64(node.activatedEpoch).v ELSE 0
        estimated_reward == json_str_field(node.estimatedReward)
        status    == stake_status(node.stakeStatus)
    IN  IF object_id.set /\ pool_id.set
        THEN << [ object_id |-> object_id.v,
                  pool_id |-> pool_id.v,
                  principal |-> principal,
                  stake_activation_epoch |-> stake_activation_epoch,
                  estimated_reward |-> estimated_reward,
                  status |-> status ] >>
        ELSE <<>>

RECURSIVE stakes_of_nodes(_)
stakes_of_nodes(nodes) ==
    IF nodes = <<>> THEN <<>>
    ELSE stake_of_node(Head(nodes)) \o stakes_of_nodes(Tail(nodes))

\* the answers of execute_query: a failure, data without a nodes array,
\* data with a nodes array
QueryFailed == [kind |-> "err", nodes |-> <<>>]
NoNodes == [kind |-> "no_nodes", nodes |-> <<>>]
Nodes(list) == [kind |-> "nodes", nodes |-> list]

get_stakes(answer) ==
    IF answer.kind = "err" THEN Err(<<"Failed to query staked objects">>)
    ELSE OkList(stakes_of_nodes(answer.nodes))

\* the (address, poolId) values of a node: both parse, one is absent, one
\* is not hex, one is a number, both are absent
NodeIds ==
    { <<JStr("0x01"), JStr("0x02")>>, <<JAbsent, JStr("0x02")>>,
      <<JStr("0x01"), JAbsent>>, <<JStr("stake"), JStr("0x02")>>,
      <<JStr("0x02"), JNum(2)>>, <<JAbsent, JAbsent>> }

NodeStatuses == {JAbsent, JStr("ACTIVE"), JStr("PENDING"), JStr("active")}

\* (activatedEpoch.epochId, principal, estimatedReward) of a node: all
\* absent, all well-formed, none of the expected type
NodeNumbers ==
    { <<JAbsent, JNoText, JNoText>>,
      <<JNum(3), JText(<<"7">>), JText(<<"1">>)>>,
      <<JStr("3"), JText(<<"x">>), JText(<<"-", "1">>)>> }

StakeNodes ==
    { [ address |-> i[1], poolId |-> i[2], stakeStatus |-> s,
        activatedEpoch |-> n[1], principal |-> n[2],
        estimatedReward |-> n[3] ] :
      i \in NodeIds, s \in NodeStatuses, n \in NodeNumbers }

NodeLists == UNION { [1..k -> StakeNodes] : k \in 0..MaxNodes }

StakeAnswers == {QueryFailed, NoNodes} \cup { Nodes(l) : l \in NodeLists }

\* get_stakes runs on the answer
get_stakes_call ==
    /\ gret = NoRet
    /\ gret' = get_stakes(gnodes)
    /\ UNCHANGED <<gnodes, rvars>>
    /\ UNCHANGED <<wvars, svars, hvars, mvars, xvars>>

(***************************************************************************)
(* Initial state and the specification of the write protocol.              *)
(***************************************************************************)
InitSend ==
    /\ wop = "none"
    /\ wamount = 0
    /\ wpc = "idle"
    /\ wlog = <<>>
    /\ wdry = "none"
    /\ wsign = "none"
    /\ wexec = "none"
    /\ wfail = "none"
    /\ wret = NoRet
    /\ ncalls = 0

InitSync ==
    /\ epoch = 0
    /\ feed = <<>>
    /\ cache = [a \in Addrs |-> {}]
    /\ syncPoint = [a \in Addrs |-> 0]
    /\ writer = [a \in Addrs |-> "none"]
    /\ sync = [i \in Syncs |-> Fresh]

InitHist ==
    /\ hpc = "idle"
    /\ hfilter = "All"
    /\ hsent = "pending"
    /\ hrecv = "pending"
    /\ hfirst = "none"
    /\ hret = NoRet

InitMin ==
    /\ mc = 0
    /\ ml = 0
    /\ ms = 0
    /\ mres = -1

\* no amount has been handed to the codec
InitAmountIdle ==
    /\ anum = None
    /\ astr = None
    /\ abal = None
    /\ ares = NoRet

\* no line has been handed to the command parser
InitFilterIdle ==
    /\ ftok = None
    /\ fres = NoRet
    /\ fcmd = NoRet

\* no client has been constructed
InitClientIdle ==
    /\ ncfg = [network |-> "Testnet", custom_url |-> NoUrl]
    /\ nclient = NoRet
    /\ service = NoService
    /\ forwarded = <<>>
    /\ txs = <<>>
    /\ nop = NoOp
    /\ nret = NoRet

\* no answer has been handed to get_stakes
InitStakesIdle ==
    /\ gnodes = NoNodes
    /\ gret = NoRet

\* the node serves pages of PageLimit items, with a start cursor on every
\* page that has items
InitRemote ==
    /\ plimit = PageLimit
    /\ pinfo = "relay"

InitLate == InitStakesIdle /\ InitRemote

InitOther == InitAmountIdle /\ InitFilterIdle /\ InitClientIdle /\ InitLate

Init == InitSend /\ InitSync /\ InitHist /\ InitMin /\ InitOther

NextSend ==
    \/ StartCall
    \/ send_iota_build_return
    \/ send_iota_dry_run_return
    \/ send_iota_execute_return
    \/ stake_iota_build_return
    \/ unstake_iota_build_return
    \/ sign_and_execute_dry_run_return
    \/ sign_and_execute_execute_return

SpecSend == Init /\ [][NextSend]_vars

Next ==
    \/ TxLand
    \/ EpochTick
    \/ \E i \in Syncs :
         \/ sync_begin(i)
         \/ sync_read_epoch(i)
         \/ sync_epoch_return(i)
         \/ \E side \in Sides : fetch_page(i, side)
         \/ sync_commit(i)
         \/ sync_cancel(i)

Spec == Init /\ [][Next]_vars

NextHist ==
    \/ transactions_begin
    \/ \E side \in Sides : query_transactions_return(side)

SpecHist == Init /\ [][NextHist]_vars

\* sync_min_epoch on every argument triple of MinEpochArgs
InitMinArgs ==
    /\ InitSend
    /\ InitSync
    /\ InitHist
    /\ \E a \in MinEpochArgs :
         /\ mc = a[1]
         /\ ml = a[2]
         /\ ms = a[3]
    /\ mres = -1
    /\ InitOther

NextMin == sync_min_epoch_call

SpecMin == InitMinArgs /\ [][NextMin]_vars

\* the codec on every amount of AmountNanos and every text of AmountTexts
InitAmount ==
    /\ InitSend
    /\ InitSync
    /\ InitHist
    /\ InitMin
    /\ \/ \E n \in AmountNanos : anum = Some(n) /\ astr = None
       \/ \E s \in AmountTexts : anum = None /\ astr = Some(s)
    /\ abal = None
    /\ ares = NoRet
    /\ InitFilterIdle
    /\ InitClientIdle
    /\ InitLate

NextAmount ==
    \/ nanos_to_iota_call
    \/ format_balance_call
    \/ parse_iota_amount_call

SpecAmount == InitAmount /\ [][NextAmount]_vars

\* the filter parser on every token of FilterTokens and on no token
InitFilter ==
    /\ InitSend
    /\ InitSync
    /\ InitHist
    /\ InitMin
    /\ InitAmountIdle
    /\ \/ ftok = None
       \/ \E s \in FilterTokens : ftok = Some(s)
    /\ fres = NoRet
    /\ fcmd = NoRet
    /\ InitClientIdle
    /\ InitLate

NextFilter ==
    \/ from_str_call
    \/ Command_parse

SpecFilter == InitFilter /\ [][NextFilter]_vars

\* a client is constructed from every configuration; a service is built on
\* it and used
InitClient ==
    /\ InitSend
    /\ InitSync
    /\ InitHist
    /\ InitMin
    /\ InitAmountIdle
    /\ InitFilterIdle
    /\ InitLate
    /\ ncfg \in NetworkConfigs
    /\ nclient = NoRet
    /\ service = NoService
    /\ forwarded = <<>>
    /\ txs = <<>>
    /\ nop = NoOp
    /\ nret = NoRet

NextClient ==
    \/ NetworkClient_new_call
    \/ WalletService_new
    \/ service_balance
    \/ service_send
    \/ service_sweep_all
    \/ service_stake
    \/ service_unstake
    \/ service_faucet
    \/ service_get_stakes
    \/ service_get_token_balances
    \/ service_sync_transactions
    \/ service_transaction_details
    \/ service_status
    \/ Command_execute_Faucet
    \/ faucet_return

SpecClient == InitClient /\ [][NextClient]_vars

\* the tasks that have ended
Over(i) == sync[i].pc \in {"done", "err", "cancelled"}

\* syncs issued one after another: a task begins when no other is running
NextSeq ==
    \/ TxLand
    \/ EpochTick
    \/ \E i \in Syncs :
         \/ sync_begin(i) /\ \A j \in Syncs \ {i} : sync[j].pc = "idle" \/ Over(j)
         \/ sync_read_epoch(i)
         \/ sync_epoch_return(i)
         \/ \E side \in Sides : fetch_page(i, side)
         \/ sync_commit(i)
         \/ sync_cancel(i)

SpecSeq == Init /\ [][NextSeq]_vars

\* syncs issued one after another, and the user clearing the history of
\* the address at any moment
NextClear ==
    \/ TxLand
    \/ EpochTick
    \/ clear(SyncAddr)
    \/ \E i \in Syncs :
         \/ sync_begin(i) /\ \A j \in Syncs \ {i} : sync[j].pc = "idle" \/ Over(j)
         \/ sync_read_epoch(i)
         \/ sync_epoch_return(i)
         \/ \E side \in Sides : fetch_page(i, side)
         \/ sync_commit(i)
         \/ sync_cancel(i)

SpecClear == Init /\ [][NextClear]_vars

\* concurrent syncs, each for any of the two addresses
NextKeys ==
    \/ TxLandKeys
    \/ EpochTick
    \/ \E i \in Syncs :
         \/ sync_begin_any(i)
         \/ sync_read_epoch(i)
         \/ sync_epoch_return(i)
         \/ \E side \in Sides : fetch_page(i, side)
         \/ sync_commit(i)
         \/ sync_cancel(i)

SpecKeys == Init /\ [][NextKeys]_vars

\* get_stakes on every answer of StakeAnswers
InitStakes ==
    /\ InitSend
    /\ InitSync
    /\ InitHist
    /\ InitMin
    /\ InitAmountIdle
    /\ InitFilterIdle
    /\ InitClientIdle
    /\ InitRemote
    /\ gnodes \in StakeAnswers
    /\ gret = NoRet

NextStakes == get_stakes_call

SpecStakes == InitStakes /\ [][NextStakes]_vars

\* the transactions a feed can hold
FeedItems ==
    { [epoch |-> e, signer |-> sh.signer, recv |-> sh.recv] :
        e \in 0..MaxEpoch, sh \in TxShapes }

\* the feeds of at most MaxFeed transactions, oldest first, their epochs
\* in the order of the chain
FetchFeeds ==
    UNION { { f \in [1..k -> FeedItems] :
                \A j \in 1..(k - 1) : f[j].epoch <= f[j + 1].epoch } :
            k \in 0..MaxFeed }

\* fetch_paginated on its own: sync_transactions has read a set of known
\* digests, computed some min_epoch and starts both sides against a feed
\* that no longer changes; the node serves pages of FetchLimit items, with
\* or without start cursors
InitFetch ==
    /\ InitSend
    /\ InitHist
    /\ InitMin
    /\ InitAmountIdle
    /\ InitFilterIdle
    /\ InitClientIdle
    /\ InitStakesIdle
    /\ plimit = FetchLimit
    /\ pinfo \in {"relay", "no_cursor"}
    /\ epoch = MaxEpoch
    /\ feed \in FetchFeeds
    /\ syncPoint = [a \in Addrs |-> 0]
    /\ writer = [a \in Addrs |-> "none"]
    /\ \E K \in SUBSET (1..Len(feed)), m \in 0..MaxEpoch :
         /\ cache = [a \in Addrs |->
                IF a = SyncAddr
                THEN { transaction_summary_from_graphql(d,
                           IF feed[d].signer = a THEN "Out" ELSE "In") :
                       d \in K }
                ELSE {}]
         /\ sync = [i \in Syncs |->
                IF i = "s1"
                THEN [Fresh EXCEPT !.pc = "fetching", !.addr = SyncAddr,
                                   !.opens = 1, !.known = K,
                                   !.cur = MaxEpoch, !.minE = m]
                ELSE Fresh]

NextFetch == \E side \in Sides : fetch_page("s1", side)

SpecFetch == InitFetch /\ [][NextFetch]_vars

(***************************************************************************)
(* Claims about the write protocol (checked under SpecSend).               *)
(***************************************************************************)
Steps(log) == {log[k] : k \in 1..Len(log)}

\* the protocol step a recorded failure belongs to
FailedStep(f) ==
    CASE f = "build"             -> "build"
      [] f = "dry_run_transport" -> "dry_run"
      [] f = "dry_run_error"     -> "dry_run"
      [] f = "sign"              -> "sign"
      [] f = "execute"           -> "execute"

\* C1: send_iota returns a TransferResult only if the dry-run reported no
\* error and the execute call completed; every other finished call returns
\* an error and no TransferResult.
C1_TransferResultOnlyAfterDryRunAndExecute ==
    wop = "send_iota" =>
        /\ wret.kind = "ok" =>
              /\ wpc = "returned"
              /\ wdry = "NoError"
              /\ wexec \in Statuses
        /\ (wpc = "returned" /\ ~(wdry = "NoError" /\ wexec \in Statuses)) =>
              wret.kind = "err"

C1_Witness ==
    /\ wop = "send_iota"
    /\ wret.kind = "ok"
    /\ wdry = "NoError"

\* C2: when the dry-run response of send_iota carries an error payload the
\* call fails with "Transaction would fail: {error}", the signer is never
\* asked and execute is never invoked.
C2_DryRunErrorStopsBeforeSigning ==
    (wop = "send_iota" /\ wdry \in DryErrors) =>
        /\ wpc = "returned"
        /\ wret = Err(<<"Transaction would fail: ", wdry>>)
        /\ "sign" \notin Steps(wlog)
        /\ "execute" \notin Steps(wlog)
        /\ wsign = "none"
        /\ wexec = "none"

C2_Witness ==
    /\ wop = "send_iota"
    /\ wdry \in DryErrors
    /\ wpc = "returned"

\* C3: within one send_iota call the steps run in the order build, dry-run,
\* sign, execute, each at most once; a failure at any step ends the call
\* with an error, with that step the last one invoked (no retry, no later
\* step), and errors come from step failures only.
C3_StepsInOrderOnceNoRetry ==
    wop = "send_iota" =>
        /\ IsPrefix(wlog, ProtocolOrder)
        /\ wfail # "none" =>
              /\ wpc = "returned"
              /\ wret.kind = "err"
              /\ wlog[Len(wlog)] = FailedStep(wfail)
        /\ wret.kind = "err" => wfail # "none"
        /\ wpc \in {"build", "dry_run", "execute"} => wlog[Len(wlog)] = wpc

C3_Witness ==
    /\ wop = "send_iota"
    /\ wfail = "execute"
    /\ wlog = ProtocolOrder
    /\ wret.kind = "err"

\* C4 as stated: an executed transaction whose effects report a failure
\* status makes send_iota return an error instead of a TransferResult.
C4_FailureStatusIsError ==
    (wop = "send_iota" /\ wexec = "Failure") => wret.kind = "err"

\* C4 as amended: whenever execute_tx resolves with effects, send_iota
\* returns a TransferResult carrying the digest and the debug-rendered
\* status, a failure status included; only a failed execute call is an
\* error.
C4_FailureStatusIsReturned ==
    (wop = "send_iota" /\ wpc = "returned" /\ wexec # "none") =>
        IF wexec \in Statuses
        THEN wret = OkTransfer(BuiltTx, wexec)
        ELSE wret = Err(<<"Failed to execute transaction">>)

C4_Witness ==
    /\ wop = "send_iota"
    /\ wexec = "Failure"
    /\ wret.kind = "ok"
    /\ wret.status = "Failure"

\* C5: stake_iota and unstake_iota follow the protocol of send_iota: the
\* built transaction is dry-run before it is signed, a dry-run error
\* prevents signing and execution, and a TransferResult is returned only
\* after execute completed.
C5_StakeFollowsSendProtocol ==
    wop \in {"stake_iota", "unstake_iota"} =>
        /\ IsPrefix(wlog, ProtocolOrder)
        /\ wsign # "none" => wdry = "NoError"
        /\ wdry \in DryErrors =>
              /\ wret = Err(<<"Transaction would fail: ", wdry>>)
              /\ "sign" \notin Steps(wlog)
              /\ "execute" \notin Steps(wlog)
        /\ wret.kind = "ok" =>
              /\ wpc = "returned"
              /\ wdry = "NoError"
              /\ wexec \in Statuses

C5_Witness ==
    /\ wop \in {"stake_iota", "unstake_iota"}
    /\ wret.kind = "ok"
    /\ wlog = ProtocolOrder

(***************************************************************************)
(* Claims about the history sync (checked under Spec, where two syncs of   *)
(* one address interleave in any order, and under SpecSeq).                *)
(***************************************************************************)
\* C6: commit_sync is all-or-nothing: a step in which commit_sync fails
\* changes neither a row nor the sync point of the cache, and the
\* sync_transactions call ends with the error.
C6_FailedCommitChangesNothing ==
    [][ \A i \in Syncs :
          (sync[i].pc = "p3" /\ sync'[i].commit = "failed") =>
              /\ cache' = cache
              /\ syncPoint' = syncPoint
              /\ sync'[i].pc = "err"
              /\ sync'[i].ret = Err(<<"commit_sync">>) ]_vars

C6_Witness ==
    \E i \in Syncs :
        /\ sync[i].commit = "failed"
        /\ sync[i].pc = "err"
        /\ sync[i].got # {}
        /\ sync[i].got \cap known_digests(sync[i].addr) = {}
        /\ syncPoint[sync[i].addr] = 0

\* C7: in every reachable state, between the steps of concurrent syncs
\* too, a sync point written by a sync holds that sync's current_epoch and
\* every row that sync fetched, sent and received, is stored; before any
\* commit the sync point is unset and no row is stored.
C7_SyncPointImpliesRowsStored ==
    \A a \in Addrs :
        IF writer[a] = "none"
        THEN syncPoint[a] = 0 /\ cache[a] = {}
        ELSE LET t == sync[writer[a]]
             IN  /\ t.addr = a
                 /\ t.commit = "ok"
                 /\ syncPoint[a] = t.cur
                 /\ t.got \subseteq known_digests(a)

C7_Witness ==
    \E i \in Syncs, j \in Syncs :
        /\ i # j
        /\ writer[SyncAddr] = i
        /\ \E d \in sync[i].got : feed[d].signer # SyncAddr
        /\ \E d \in sync[i].got : feed[d].signer = SyncAddr
        /\ sync[j].pc \in {"fetching", "p3"}
        /\ Collected(sync[j]) # {}

\* C8: every step of a sync_transactions call other than its successful
\* commit (the cache reads, the epoch query, each page fetch of either
\* side, a failure or a cancellation at any of them) leaves the cache rows
\* and the sync point as they were.
C8_InterruptedSyncLeavesCacheUnchanged ==
    [][ \A i \in Syncs :
          (sync'[i] # sync[i] /\ ~(sync[i].pc = "p3" /\ sync'[i].commit = "ok")) =>
              /\ cache' = cache
              /\ syncPoint' = syncPoint ]_vars

C8_Witness ==
    \E i \in Syncs :
        /\ sync[i].pc \in {"cancelled", "err"}
        /\ sync[i].at = "fetching"
        /\ Cardinality(sync[i].got) = 2
        /\ cache[sync[i].addr] = {}
        /\ syncPoint[sync[i].addr] = 0
        /\ writer[sync[i].addr] = "none"

\* C9: sync_transactions holds no cache handle while it awaits an RPC: the
\* cache is opened once before any network call to read the known digests
\* and the sync point, and once more after all network calls returned; a
\* call that returned Ok opened it exactly twice.
C9_NoHandleAcrossSuspension ==
    \A i \in Syncs :
        /\ sync[i].pc \in {"await_epoch", "fetching", "p3"} =>
              ~sync[i].handle /\ sync[i].opens = 1
        /\ sync[i].pc = "p1_epoch" => sync[i].handle /\ sync[i].opens = 1
        /\ sync[i].opens <= 2
        /\ sync[i].pc = "done" => ~sync[i].handle /\ sync[i].opens = 2

C9_Witness ==
    \E i \in Syncs, j \in Syncs :
        /\ sync[i].pc = "fetching"
        /\ sync[i].sdone["sent"]
        /\ ~sync[i].sdone["recv"]
        /\ sync[j].pc = "done"
        /\ sync[j].opens = 2

\* C10: after a sync_transactions that returned Ok having observed
\* current_epoch c and computed min_epoch m, every transaction signed or
\* received by the address with epoch in m..c that was in the remote feed
\* when the side was first queried is stored in the cache of the address.
C10_WindowComplete ==
    \A i \in Syncs :
        (sync[i].pc = "done" /\ sync[i].commit = "ok") =>
            \A side \in Sides :
                \A d \in SideDigests(sync[i].addr, side) :
                    ( /\ d <= sync[i].qlen[side]
                      /\ sync[i].minE <= feed[d].epoch
                      /\ feed[d].epoch <= sync[i].cur ) =>
                        d \in known_digests(sync[i].addr)

C10_Witness ==
    /\ sync["s1"].pc = "done"
    /\ sync["s2"].pc = "done"
    /\ sync["s1"].got = {2}
    /\ sync["s2"].got = {1}
    /\ sync["s2"].minE <= feed[1].epoch
    /\ feed[1].epoch < sync["s1"].minE

\* C11: a sync that read a previous sync point s > 0 fetches from an epoch
\* no later than s, so a transaction the previous sync missed because it
\* landed after the feed was read (its epoch is at least s) is stored by
\* the next successful sync that sees it: no epoch from the previous sync
\* point on is left uncovered.
C11_NextSyncBridgesFromSyncPoint ==
    \A i \in Syncs :
        (sync[i].pc = "done" /\ sync[i].commit = "ok" /\ sync[i].last > 0) =>
            /\ sync[i].last <= sync[i].cur
            /\ sync[i].minE <= sync[i].last
            /\ \A side \in Sides :
                 \A d \in SideDigests(sync[i].addr, side) :
                     (d <= sync[i].qlen[side] /\ feed[d].epoch >= sync[i].last) =>
                         d \in known_digests(sync[i].addr)

C11_Witness ==
    /\ sync["s1"].pc = "done"
    /\ sync["s2"].pc = "done"
    /\ sync["s1"].got = {}
    /\ sync["s2"].last = sync["s1"].cur
    /\ sync["s2"].last > 0
    /\ sync["s2"].minE = sync["s2"].last
    /\ sync["s2"].minE < sync["s2"].cur
    /\ \E d \in sync["s2"].got :
           /\ \E side \in Sides :
                  d \in SideDigests(SyncAddr, side) /\ d > sync["s1"].qlen[side]
           /\ feed[d].epoch = sync["s2"].last

\* C12: the last_synced_epoch a sync read never exceeds the current_epoch
\* the same sync then observes, in every interleaving of syncs of one
\* address; the stored sync point is unset or the epoch its writer observed,
\* and never ahead of the chain.
C12_LastSyncedNeverExceedsCurrent ==
    /\ \A i \in Syncs :
           sync[i].pc \in {"fetching", "p3", "done"} => sync[i].last <= sync[i].cur
    /\ \A a \in Addrs :
           /\ syncPoint[a] <= epoch
           /\ syncPoint[a] # 0 => \E i \in Syncs :
                                      /\ sync[i].pc = "done"
                                      /\ sync[i].addr = a
                                      /\ sync[i].cur = syncPoint[a]

C12_Witness ==
    \E i \in Syncs, j \in Syncs :
        /\ i # j
        /\ sync[i].pc = "done"
        /\ sync[j].pc = "done"
        /\ sync[j].last = sync[i].cur
        /\ sync[j].last > 0
        /\ sync[j].last = sync[j].cur
        /\ sync[i].last = 0
        /\ syncPoint[SyncAddr] = epoch

\* C13: when the syncs of one address have all committed, the sync point is
\* the current_epoch of the sync that committed last, also when another
\* sync observed a higher epoch and committed before it.
C13_LastCommitWins ==
    (\A i \in Syncs : sync[i].pc = "done" /\ sync[i].commit = "ok") =>
        /\ writer[SyncAddr] \in Syncs
        /\ syncPoint[SyncAddr] = sync[writer[SyncAddr]].cur

C13_Witness ==
    /\ \A i \in Syncs : sync[i].pc = "done" /\ sync[i].commit = "ok"
    /\ \E i \in Syncs :
           /\ writer[SyncAddr] # i
           /\ sync[i].cur > sync[writer[SyncAddr]].cur
           /\ syncPoint[SyncAddr] < sync[i].cur

(***************************************************************************)
(* Claims about the live read path (checked under SpecHist).               *)
(***************************************************************************)
\* the call returned a list
HistReturned == hpc = "returned" /\ hret.kind = "ok"

\* C14: in the list transactions returns, under every filter, no two
\* summaries share a digest.
C14_NoDigestTwice ==
    HistReturned =>
        \A k \in 1..Len(hret.list), l \in 1..Len(hret.list) :
            hret.list[k].digest = hret.list[l].digest => k = l

C14_Witness ==
    /\ HistReturned
    /\ hfilter = "All"
    /\ Len(hsent.data) = 2
    /\ Len(hrecv.data) = 2
    /\ Digests(hsent.data) \cap Digests(hrecv.data) # {}
    /\ Len(hret.list) = 3

\* C15: under the All filter every listed digest is kept once, with
\* direction Out when the sent feed lists it (also when the received feed
\* lists it too) and with direction In when only the received feed does.
C15_SentWinsDirection ==
    (HistReturned /\ hfilter = "All") =>
        /\ Digests(hret.list) = Digests(hsent.data) \cup Digests(hrecv.data)
        /\ \A k \in 1..Len(hret.list) :
               hret.list[k].direction =
                   IF hret.list[k].digest \in Digests(hsent.data)
                   THEN "Out" ELSE "In"

C15_Witness ==
    /\ HistReturned
    /\ hfilter = "All"
    /\ hfirst = "recv"
    /\ \E k \in 1..Len(hret.list) :
           /\ hret.list[k].digest \in Digests(hsent.data) \cap Digests(hrecv.data)
           /\ hret.list[k].direction = "Out"
    /\ \E k \in 1..Len(hret.list) : hret.list[k].direction = "In"

Rank(d) ==
    IF d \in Digests(hsent.data)
    THEN CHOOSE k \in 1..Len(hsent.data) : hsent.data[k].digest = d
    ELSE Len(hsent.data) +
         (CHOOSE k \in 1..Len(hrecv.data) : hrecv.data[k].digest = d)

ExampleSent ==
    << [digest |-> "D1", epoch |-> 5, lamport_version |-> 2, direction |-> "Out"],
       [digest |-> "D2", epoch |-> 4, lamport_version |-> 0, direction |-> "Out"] >>

ExampleRecv ==
    << [digest |-> "D2", epoch |-> 4, lamport_version |-> 0, direction |-> "In"],
       [digest |-> "D3", epoch |-> 5, lamport_version |-> 1, direction |-> "In"] >>

ExampleAll ==
    << [digest |-> "D1", epoch |-> 5, lamport_version |-> 2, direction |-> "Out"],
       [digest |-> "D3", epoch |-> 5, lamport_version |-> 1, direction |-> "In"],
       [digest |-> "D2", epoch |-> 4, lamport_version |-> 0, direction |-> "Out"] >>

\* C18: the returned list is determined by the two one-sided results alone,
\* whichever query completed first: a summary's direction is that of its
\* side (sent wins), and of two summaries the one with the higher
\* (epoch, lamport_version) comes first, on a tie the one that comes first
\* in sent-then-received order; for sent = [D1(5,2), D2(4,0)] and
\* recv = [D2(4,0), D3(5,1)] the All result is [D1(Out), D3(In), D2(Out)].
C18_ResultIndependentOfCompletionOrder ==
    HistReturned =>
        /\ \A k \in 1..Len(hret.list) :
               hret.list[k].direction =
                   IF hret.list[k].digest \in Digests(hsent.data)
                   THEN "Out" ELSE "In"
        /\ \A k \in 1..Len(hret.list), l \in 1..Len(hret.list) :
               k < l =>
                   \/ goes_before(hret.list[k], hret.list[l])
                   \/ /\ ~goes_before(hret.list[l], hret.list[k])
                      /\ Rank(hret.list[k].digest) < Rank(hret.list[l].digest)
        /\ (hsent.data = ExampleSent /\ hrecv.data = ExampleRecv /\ hfilter = "All") =>
               hret.list = ExampleAll

C18_Witness ==
    /\ HistReturned
    /\ hfirst = "recv"
    /\ hfilter = "All"
    /\ hsent.data = ExampleSent
    /\ hrecv.data = ExampleRecv
    /\ hret.list = ExampleAll

(***************************************************************************)
(* Claims about sync_min_epoch (checked under SpecMin).                    *)
(***************************************************************************)
\* max(c - L, 0) of the arguments
WindowMin == IF mc - ml > 0 THEN mc - ml ELSE 0

\* the unit tests of sync_min_epoch: arguments and asserted value
TestCases ==
    { <<100, 7, 0, 93>>, <<3, 7, 0, 0>>, <<15, 7, 14, 8>>, <<14, 7, 3, 3>>,
      <<100, 7, 3, 3>>, <<101, 30, 100, 71>>, <<100, 7, 93, 93>> }

\* C19: sync_min_epoch(c, L, s) is s when 0 < s < max(c - L, 0) and
\* max(c - L, 0) otherwise: the pure window on a first sync (s = 0), 0 when
\* the chain is younger than the lookback, the window minimum for a sync
\* point inside the window or exactly at its minimum, and the sync point
\* when it is older; the values the unit tests assert are returned.
C19_MinEpochIsWindowOrBridge ==
    mres # -1 =>
        /\ mres = IF 0 < ms /\ ms < WindowMin THEN ms ELSE WindowMin
        /\ ms = 0 => mres = WindowMin
        /\ mc < ml => mres = 0
        /\ ms >= WindowMin => mres = WindowMin
        /\ \A t \in TestCases :
               (mc = t[1] /\ ml = t[2] /\ ms = t[3]) => mres = t[4]

C19_Witness ==
    /\ mres # -1
    /\ mc = 14
    /\ ml = 7
    /\ ms = 3
    /\ mres = 3

\* C20 as stated: sync_min_epoch(c, L, s) = s if and only if
\* 0 < s < max(c - L, 0).
C20_ReturnsLastSyncedIffBridged ==
    mres # -1 => (mres = ms <=> (0 < ms /\ ms < WindowMin))

\* C20 as amended: sync_min_epoch(c, L, s) = s if and only if
\* 0 < s < max(c - L, 0) or s = max(c - L, 0).
C20_ReturnsLastSyncedIffBridgedOrAtWindowMin ==
    mres # -1 => (mres = ms <=> ((0 < ms /\ ms < WindowMin) \/ ms = WindowMin))

C20_Witness ==
    /\ mres # -1
    /\ mc = 100
    /\ ml = 7
    /\ ms = 93
    /\ mres = ms
    /\ ms = WindowMin

(***************************************************************************)
(* Claims about the amount codec (checked under SpecAmount).               *)
(***************************************************************************)
AllDigits(s) == \A k \in 1..Len(s) : IsDigit(s[k])

RECURSIVE Pow10(_)
Pow10(k) == IF k = 0 THEN 1 ELSE 10 * Pow10(k - 1)

\* a text of the form ^[0-9]+(\.[0-9]{0,9})?$
MatchesAmountFormat(s) ==
    \/ s # <<>> /\ AllDigits(s)
    \/ \E k \in 2..Len(s) :
         /\ s[k] = "."
         /\ AllDigits(SubSeq(s, 1, k - 1))
         /\ AllDigits(SubSeq(s, k + 1, Len(s)))
         /\ Len(s) - k <= 9

\* the whole part and the fractional part of a text of that form
WholeOf(s) ==
    IF AllDigits(s) THEN s
    ELSE SubSeq(s, 1, (CHOOSE k \in 1..Len(s) : s[k] = ".") - 1)

FracOf(s) ==
    IF AllDigits(s) THEN <<>>
    ELSE SubSeq(s, (CHOOSE k \in 1..Len(s) : s[k] = ".") + 1, Len(s))

\* whole x 10^9 + frac x 10^(9 - len(frac)), exactly: a numeral in base 10^9
\* of as many digits as it takes
ExactNanos(s) ==
    StripZeroLimbs(Limbs(WholeOf(s))
                       \o <<DecValue(FracOf(s)) * Pow10(9 - Len(FracOf(s)))>>)

FitsU64(l) == Len(l) <= 3 /\ Leq3(Pad3(l), U64_MAX)

\* the text handed to the parser is an input, and the parser has answered
Parsed == ~anum.set /\ astr.set /\ ares # NoRet

\* the amounts below 2^64 / 10^9
RoundTripRange(v) == Leq3(v, <<0, 18, 446744073>>)

\* C21: for every n in [0, 2^64/10^9), parsing the text that nanos_to_iota
\* gives for n returns n.
C21_AmountRoundTrip ==
    (anum.set /\ RoundTripRange(anum.v) /\ astr.set /\ ares # NoRet)
        => ares = OkAmount(anum.v)

C21_Witness ==
    /\ anum.set
    /\ RoundTripRange(anum.v)
    /\ anum.v = <<0, 18, 1>>
    /\ astr.set
    /\ ares = OkAmount(anum.v)

\* C22: parse_iota_amount accepts only a text that, trimmed, has the form
\* ^[0-9]+(\.[0-9]{0,9})?$: every other text (empty, signed, multi-dot,
\* more than nine decimals, exponent, non-numeric) is refused.
C22_AcceptsOnlyPlainDecimals ==
    (Parsed /\ ares.kind = "ok") => MatchesAmountFormat(trim(astr.v))

\* C23: the nano arithmetic is checked: when whole x 10^9, or its sum with
\* the fractional nanos, exceeds 64 bits the parse fails with "Amount too
\* large", and a successful result is the exact value, never a wrapped one.
C23_ArithmeticChecked ==
    /\ (Parsed /\ MatchesAmountFormat(trim(astr.v))
               /\ FitsU64(StripZeroLimbs(Limbs(WholeOf(trim(astr.v))))))
           => IF FitsU64(ExactNanos(trim(astr.v)))
              THEN ares = OkAmount(Pad3(ExactNanos(trim(astr.v))))
              ELSE ares = Err(<<"Amount too large">>)
    /\ (astr.set /\ ares.kind = "ok")
           => /\ Len(ares.v) = 3
              /\ \A k \in 1..3 : ares.v[k] \in 0..(NANOS_PER_IOTA - 1)
              /\ Leq3(ares.v, U64_MAX)

C23_Witness ==
    /\ Parsed
    /\ astr.v = <<"1", "8", "4", "4", "6", "7", "4", "4", "0", "7", "3", ".",
                  "7", "0", "9", "5", "5", "1", "6", "1", "6">>
    /\ ares = Err(<<"Amount too large">>)

\* C24: a bare integer w parses as w x 10^9 nanos, as do "w." and "w.0";
\* "w.f" with f of 1 to 9 digits parses as w x 10^9 + f x 10^(9 - len(f)).
C24_WholeUnitsAndRightPadding ==
    (Parsed /\ MatchesAmountFormat(trim(astr.v))
            /\ FitsU64(ExactNanos(trim(astr.v))))
        => LET s == trim(astr.v)
               w == Pad3(StripZeroLimbs(Limbs(WholeOf(s))))
               f == FracOf(s)
           IN  /\ ares = OkAmount(<<w[2], w[3], DecValue(f) * Pow10(9 - Len(f))>>)
               /\ AllDigits(s)
                    => /\ ares = OkAmount(<<w[2], w[3], 0>>)
                       /\ ares = parse_iota_amount(s \o <<".">>)
                       /\ ares = parse_iota_amount(s \o <<".", "0">>)

C24_Witness ==
    /\ Parsed
    /\ astr.v = <<"0", ".", "0", "0", "1">>
    /\ ares = OkAmount(<<0, 0, 1000000>>)

\* C25: nanos_to_iota(n) is the decimal quotient n / 10^9, a dot, and the
\* remainder n mod 10^9 zero-padded on the left to exactly nine digits;
\* format_balance(n) is that text followed by " IOTA".
C25_NineFractionalDigits ==
    /\ (anum.set /\ astr.set)
         => LET s == astr.v
                q == SubSeq(s, 1, Len(s) - 10)
                r == SubSeq(s, Len(s) - 8, Len(s))
            IN  /\ Len(s) >= 11
                /\ s[Len(s) - 9] = "."
                /\ AllDigits(q)
                /\ Len(q) > 1 => q[1] # "0"
                /\ Pad3(StripZeroLimbs(Limbs(q))) = <<0, anum.v[1], anum.v[2]>>
                /\ AllDigits(r)
                /\ DecValue(r) = anum.v[3]
    /\ (anum.set /\ astr.set /\ abal.set)
         => abal.v = astr.v \o <<" ", "I", "O", "T", "A">>
    /\ (anum.set /\ astr.set /\ anum.v = <<0, 0, 1>>)
         => astr.v = <<"0", ".", "0", "0", "0", "0", "0", "0", "0", "0", "1">>

C25_Witness ==
    /\ anum.set
    /\ anum.v = <<0, 123, 456789012>>
    /\ astr.set
    /\ abal.set
    /\ abal.v = astr.v \o <<" ", "I", "O", "T", "A">>

(***************************************************************************)
(* Claims about the filter tokens (checked under SpecFilter).              *)
(***************************************************************************)
FilterOfToken(s) ==
    CASE to_lowercase(s) = <<"i", "n">>      -> "In"
      [] to_lowercase(s) = <<"o", "u", "t">> -> "Out"
      [] to_lowercase(s) = <<"a", "l", "l">> -> "All"
      [] OTHER                               -> "none"

\* the documented error for the value v, echoed as given or in lower case
UnknownFilterErrors(v) ==
    { Err(<<"Unknown transaction filter: '", e, "'. Use 'in', 'out', or 'all'.">>) :
        e \in {v, to_lowercase(v)} }

\* C26: a filter token is accepted case-insensitively as in, out or all;
\* any other present value is rejected with "Unknown transaction filter:
\* '{v}'. Use 'in', 'out', or 'all'."; only an absent value defaults to All.
C26_UnknownFilterRejected ==
    /\ (ftok.set /\ fres # NoRet)
         => IF FilterOfToken(ftok.v) # "none"
            THEN fres = OkFilter(FilterOfToken(ftok.v))
            ELSE fres \in UnknownFilterErrors(ftok.v)
    /\ fcmd # NoRet
         => IF ~ftok.set THEN fcmd = OkShowTransfers("All")
            ELSE IF FilterOfToken(ftok.v) # "none"
            THEN fcmd = OkShowTransfers(FilterOfToken(ftok.v))
            ELSE fcmd \in UnknownFilterErrors(ftok.v)

(***************************************************************************)
(* Claims about the network client and the wallet service (checked under   *)
(* SpecClient).                                                            *)
(***************************************************************************)
\* the faucet call in progress has come to NetworkClient::faucet
ReachedClient == nop.pc # "idle" /\ ~nop.is_mainnet

\* the faucet endpoint of each network that has one
OwnFaucet(network) ==
    CASE network = "Testnet" -> "faucet.testnet"
      [] network = "Devnet"  -> "faucet.devnet"
      [] OTHER               -> "none"

\* C27: faucet on Mainnet fails with "Faucet is not available on mainnet"
\* and on Custom with the custom-network message, in both cases without any
\* faucet or RPC request; only Testnet and Devnet send a request to a
\* faucet endpoint, each to its own.
C27_FaucetOnlyOnTestnetAndDevnet ==
    /\ (nop.pc # "idle" /\ nclient.network = "Mainnet")
         => /\ nop.pc = "returned"
            /\ nret.kind = "err"
            /\ nret.msg[1] = "Faucet is not available on mainnet"
            /\ nop.sent = <<>>
    /\ (ReachedClient /\ nclient.network = "Custom")
         => /\ nop.pc = "returned"
            /\ nret.kind = "err"
            /\ nret.msg[1] = "Faucet is not available for custom networks"
            /\ nop.sent = <<>>
    /\ (ReachedClient /\ nclient.network \in {"Testnet", "Devnet"})
         => nop.sent = <<[endpoint |-> OwnFaucet(nclient.network),
                          address |-> nop.address]>>
    /\ nop.sent # <<>> => nclient.network \in {"Testnet", "Devnet"}

C27_Witness ==
    /\ nop.pc = "returned"
    /\ nop.via = "service"
    /\ nclient.network = "Mainnet"
    /\ nret = Err(<<"Faucet is not available on mainnet">>)
    /\ nop.sent = <<>>

\* C28: NetworkClient::new fails only for a Custom network, and with
\* custom_url absent its error is "Custom network requires a node URL";
\* for Mainnet, Testnet and Devnet it succeeds whatever custom_url holds.
C28_OnlyCustomConstructionFails ==
    nclient # NoRet
        => /\ nclient.kind = "err" => ncfg.network = "Custom"
           /\ (ncfg.network = "Custom" /\ ncfg.custom_url = NoUrl)
                => nclient = Err(<<"Custom network requires a node URL">>)
           /\ ncfg.network # "Custom" => nclient = OkClient(ncfg.network)

C28_Witness ==
    /\ ncfg.network = "Custom"
    /\ ncfg.custom_url = NoUrl
    /\ nclient = Err(<<"Custom network requires a node URL">>)

\* the service's methods that move funds
ServiceWrites == {"send_iota", "sweep_all", "stake_iota", "unstake_iota"}

\* the service's methods that take no address
ServiceLookups == {"transaction_details", "status"}

\* C29: every operation of the service is forwarded with signer.address()
\* as its address and, for the writes, with the service's own signer: the
\* sender of every transaction built for a write of the service is the
\* address of the signer that signs it.
C29_SenderIsSignersAddress ==
    /\ \A k \in 1..Len(forwarded) :
         /\ forwarded[k].method \notin ServiceLookups
              => forwarded[k].address = SignerAddress(service)
         /\ forwarded[k].method \in ServiceWrites
              => forwarded[k].signer = service
    /\ \A k \in 1..Len(txs) :
         /\ txs[k].sender = SignerAddress(service)
         /\ txs[k].signed_by # "none"
              => txs[k].sender = SignerAddress(txs[k].signed_by)

C29_Witness ==
    /\ service = "k2"
    /\ Len(txs) = 2
    /\ txs[1].method = "send_iota"
    /\ txs[1].signed_by = "k2"
    /\ txs[1].sender = "a2"
    /\ txs[2].method = "unstake_iota"
    /\ txs[2].signed_by = "k2"

(***************************************************************************)
(* Claims about the cached rows (checked under Spec).                      *)
(***************************************************************************)
\* C30: cached summaries are never mutated in place: a row stored for an
\* address keeps its content (its direction included) through every later
\* sync_transactions and is never removed by one, and rows are added only
\* by the commit of a sync that succeeds.
C30_RowsNeverMutated ==
    [][ /\ \A a \in Addrs : \A r \in cache[a] : r \in cache'[a]
        /\ cache' # cache
             => \E i \in Syncs : /\ sync[i].pc = "p3"
                                 /\ sync'[i].ret = OkUnit ]_vars

(***************************************************************************)
(* get_stakes                                                              *)
(***************************************************************************)
\* a node whose address and poolId are both strings ObjectId::from_hex
\* accepts
HasBothIds(node) ==
    /\ node.address.kind = "str" /\ node.address.s \in HexIds
    /\ node.poolId.kind = "str" /\ node.poolId.s \in HexIds

\* the summary at position j stems from the j-th node that has both ids
StakeMatchesNode(summary, node) ==
    /\ summary.object_id = node.address.s
    /\ summary.pool_id = node.poolId.s
    /\ summary.status =
          (IF node.stakeStatus = JStr("ACTIVE") THEN "Active"
           ELSE IF node.stakeStatus = JStr("PENDING") THEN "Pending"
           ELSE "Unstaked")
    /\ node.activatedEpoch.kind = "absent" => summary.stake_activation_epoch = 0
    /\ node.activatedEpoch.kind = "num" =>
          summary.stake_activation_epoch = node.activatedEpoch.n

\* C31: get_stakes returns one summary for each node that has a parseable
\* object id and a parseable pool id, in the order of the nodes, and none
\* for the other nodes; the status is Active for "ACTIVE", Pending for
\* "PENDING" (exact case) and Unstaked otherwise; a missing activated epoch
\* gives epoch 0.
C31_StakesMappedInOrder ==
    (gret.kind = "ok") =>
        LET kept == SelectSeq(gnodes.nodes, HasBothIds)
        IN  /\ Len(gret.list) = Len(kept)
            /\ \A j \in 1..Len(kept) : StakeMatchesNode(gret.list[j], kept[j])

\* an answer of two nodes, the first dropped for its missing pool id, the
\* second listed with a lower-case status (Unstaked) and no activated epoch
C31_Witness ==
    /\ gret.kind = "ok"
    /\ Len(gnodes.nodes) = 2
    /\ ~HasBothIds(gnodes.nodes[1])
    /\ gnodes.nodes[1].address = JStr("0x01")
    /\ gnodes.nodes[2].stakeStatus = JStr("active")
    /\ gnodes.nodes[2].activatedEpoch = JAbsent
    /\ Len(gret.list) = 1
    /\ gret.list[1].status = "Unstaked"
    /\ gret.list[1].stake_activation_epoch = 0

(***************************************************************************)
(* fetch_paginated on its own (SpecFetch).                                 *)
(***************************************************************************)
\* the task that runs fetch_paginated
Fetcher == sync["s1"]

\* its pagination loops are running or have both returned
Paginating == Fetcher.pc \in {"fetching", "p3"}

\* the digests collected on a side
CollectedOn(side) ==
    { Fetcher.all[side][k].digest : k \in 1..Len(Fetcher.all[side]) }

\* the page the node answers to the k-th request of a side
PageOfRequest(t, side, k) == Page(SyncAddr, side, t.reqs[side][k])

PageProcessed(side) ==
    /\ sync["s1"].pc = "fetching"
    /\ sync'["s1"].pc \in {"fetching", "p3"}
    /\ sync'["s1"].reqs[side] # sync["s1"].reqs[side]

C33_PageStep(side) ==
    PageProcessed(side) =>
        LET t == sync["s1"]
            u == sync'["s1"]
            n == Len(t.reqs[side])
            pagination == u.reqs[side][n + 1]
            page == Page(SyncAddr, side, pagination)
        IN  /\ u.reqs[side] = Append(t.reqs[side], pagination)
            /\ \A o \in Sides \ {side} : u.reqs[o] = t.reqs[o]
            /\ pagination.direction = "Backward"
            /\ pagination.limit = 50
            /\ pagination.cursor =
                   (IF n = 0 THEN 0
                    ELSE PageOfRequest(t, side, n).start_cursor)
            /\ u.sdone[side] <=>
                   \/ page.data = <<>>
                   \/ \E k \in 1..Len(page.data) :
                          feed[page.data[k]].epoch < t.minE
                   \/ ~page.has_previous_page
            /\ ~u.sdone[side] => u.cursor[side] = page.start_cursor

RECURSIVE ItemsOnPages(_, _)
ItemsOnPages(side, reqs) ==
    IF reqs = <<>> THEN 0
    ELSE Len(Page(SyncAddr, side, Head(reqs)).data)
             + ItemsOnPages(side, Tail(reqs))

\* C34: no collected item has an epoch below min_epoch, known or not; every
\* item of every page answered has been visited by the loop, the items
\* behind a boundary item included; a summary collected on the signed-by
\* side has direction Out and one collected on the received-by side In.
C34_BoundaryItemsSkippedDirectionStamped ==
    Paginating =>
        \A side \in Sides :
            /\ \A k \in 1..Len(Fetcher.all[side]) :
                   LET s == Fetcher.all[side][k]
                   IN  /\ s.epoch = feed[s.digest].epoch
                       /\ s.epoch >= Fetcher.minE
                       /\ side = "sent" => s.direction = "Out" /\ feed[s.digest].signer = SyncAddr
                       /\ side = "recv" => s.direction = "In" /\ SyncAddr \in feed[s.digest].recv
            /\ Fetcher.seen[side] = ItemsOnPages(side, Fetcher.reqs[side])

\* the signed-by side stopped on a page of two unknown items below
\* min_epoch, both visited and none collected; the received-by side
\* collected a newer item as In
C34_Witness ==
    /\ Paginating
    /\ Fetcher.known = {}
    /\ Fetcher.sdone["sent"]
    /\ Len(Fetcher.reqs["sent"]) = 1
    /\ PageOfRequest(Fetcher, "sent", 1).data = <<2, 1>>
    /\ feed[2].epoch < Fetcher.minE
    /\ Fetcher.seen["sent"] = 2
    /\ Fetcher.all["sent"] = <<>>
    /\ Len(Fetcher.all["recv"]) = 1
    /\ Fetcher.all["recv"][1].digest = 3
    /\ Fetcher.all["recv"][1].direction = "In"

\* C36: fetch_paginated requests no page twice: the requests of a side
\* differ from one another, also when a page reports a previous page
\* without a start cursor.
C36_NoPageRequestedTwice ==
    Paginating =>
        \A side \in Sides :
            \A j, k \in 1..Len(Fetcher.reqs[side]) :
                j # k => Fetcher.reqs[side][j] # Fetcher.reqs[side][k]

(***************************************************************************)
(* The commit of a sync: directions, interleavings, keys.                  *)
(***************************************************************************)
\* task i commits successfully in this step
Commits(i) == sync[i].pc = "p3" /\ sync'[i].pc = "done"

DigestsOf(list) == { list[k].digest : k \in 1..Len(list) }

\* the rows stored under a digest
RowsOf(rows, d) == { r \in rows : r.digest = d }

\* C35: when a sync commits, a digest it collected on the signed-by side
\* and on the received-by side is stored under its address in one row,
\* whose direction is Out.
C35_BothSidesStoredOnceAsOut ==
    [][\A i \in Syncs :
         Commits(i) =>
            \A d \in DigestsOf(sync[i].all["sent"])
                         \cap DigestsOf(sync[i].all["recv"]) :
                \E r \in cache'[sync[i].addr] :
                    /\ RowsOf(cache'[sync[i].addr], d) = {r}
                    /\ r.direction = "Out"]_vars

\* a sync returned Ok having collected, on both sides, a transaction the
\* address sent to itself; its commit was the last one and the row is Out
C35_Witness ==
    \E i \in Syncs, d \in 1..Len(feed) :
        /\ sync[i].pc = "done"
        /\ sync[i].commit = "ok"
        /\ writer[SyncAddr] = i
        /\ d \in sync[i].got
        /\ feed[d].signer = SyncAddr
        /\ SyncAddr \in feed[d].recv
        /\ d <= sync[i].qlen["sent"]
        /\ d <= sync[i].qlen["recv"]
        /\ RowsOf(cache[SyncAddr], d) =
              {[digest |-> d, epoch |-> feed[d].epoch, direction |-> "Out"]}

\* the cache of the task's address is not what the task read in phase 1:
\* a commit or a clear on the same key came in between
ChangedSinceRead(i) ==
    \/ sync[i].known # known_digests(sync[i].addr)
    \/ sync[i].last # get_sync_epoch(sync[i].addr)

\* C37: when the cache of the address changed between the read phase and
\* the commit of a sync (another sync committed, or the history was
\* cleared), then after the commit every transaction of the address that
\* was in the remote feed when the side was first queried, with epoch in
\* min_epoch..current_epoch, is stored in the cache.
C37_CompleteUnderInterleaving ==
    [][\A i \in Syncs :
         (Commits(i) /\ ChangedSinceRead(i)) =>
            \A side \in Sides :
                \A d \in SideDigests(sync[i].addr, side) :
                    ( /\ d <= sync[i].qlen[side]
                      /\ sync[i].minE <= feed[d].epoch
                      /\ feed[d].epoch <= sync[i].cur ) =>
                        RowsOf(cache'[sync[i].addr], d) # {}]_vars

\* the address whose cache a step of task i may write
KeyOf(i) == IF sync[i].pc = "idle" THEN sync'[i].addr ELSE sync[i].addr

\* C38: in every interleaving of syncs the cache of an address holds at
\* most one row per digest, and a step of a sync for one address leaves
\* the rows and the sync point of every other address as they are.
C38_OneRowPerKeyOthersUntouched ==
    [][/\ \A a \in Addrs :
            \A r \in cache'[a] : RowsOf(cache'[a], r.digest) = {r}
       /\ \A i \in Syncs :
            sync'[i] # sync[i] =>
                \A a \in Addrs \ {KeyOf(i)} :
                    /\ cache'[a] = cache[a]
                    /\ syncPoint'[a] = syncPoint[a]]_vars

\* two syncs for different addresses have committed the same transaction,
\* each under its own address: Out for the payer, In for the payee
C38_Witness ==
    \E i, j \in Syncs, d \in 1..Len(feed) :
        /\ sync[i].pc = "done" /\ sync[i].addr = "a1" /\ writer["a1"] = i
        /\ sync[j].pc = "done" /\ sync[j].addr = "a2" /\ writer["a2"] = j
        /\ d \in sync[i].got \cap sync[j].got
        /\ RowsOf(cache["a1"], d) =
              {[digest |-> d, epoch |-> feed[d].epoch, direction |-> "Out"]}
        /\ RowsOf(cache["a2"], d) =
              {[digest |-> d, epoch |-> feed[d].epoch, direction |-> "In"]}

====
